---- MODULE Spec2Model ----
(***************************************************************************)
(* The resource graph store of the Terraform back end: TerraformResource   *)
(* rows with their containment relation (parent_resource),                 *)
(* ResourceDependency rows, and the REST handlers that mutate them         *)
(* (TerraformResourceViewSet, ResourceDependencyViewSet) together with the *)
(* validation of TerraformResourceSerializer and TerraformResource.clean.  *)
(***************************************************************************)
EXTENDS Integers, Sequences, FiniteSets, Bags, TLC

VARIABLES
    resources,      \* the TerraformResource table: id -> row
    dependencies,   \* the ResourceDependency table: a bag of rows
    response,       \* the response of the last request
    pending,        \* the create request between its two writes of the table
    input,          \* what the HCL parser is given
    output,         \* what the HCL parser has produced so far
    providers,      \* the TerraformProvider table: a set of rows
    executions,     \* the TerraformExecution table: id -> row
    credentials,    \* the CloudProviderCredential table: id -> row
    aws             \* the ECS tasks (arn -> task) and the API Gateway integration

vars == <<resources, dependencies, response, pending, input, output,
          providers, executions, credentials, aws>>

----------------------------------------------------------------------------
(* Bounds *)

MaxEntities == 3    \* rows the TerraformResource table may hold
MaxEdges == 2       \* rows the ResourceDependency table may hold
MaxConfigured == 2  \* rows of the scenarios that update configurations
MaxBlocks == 2      \* blocks of one section of a parsed file
MaxTokens == 5      \* tokens of a configuration string
MaxFiles == 2       \* .tf files of a project directory
MaxExecutions == 2  \* rows the TerraformExecution table may hold
MaxTasks == 3       \* tasks ECS lists at a time
MaxCredentials == 3 \* rows the CloudProviderCredential table may hold
MaxAddressed == 2   \* rows the updates of the graph scenario address

Ids == 1..MaxEntities
NULL == 0           \* parent_resource = None

----------------------------------------------------------------------------
(* Sequence helpers *)

Range(s) == {s[i] : i \in 1..Len(s)}

----------------------------------------------------------------------------
(* TerraformResource: static tables *)

STATUS_CHOICES ==
    {"unknown", "planning", "applying", "created", "updating", "error", "destroyed"}

CONTAINER_RULES ==
    ("aws_account" :> <<"aws_vpc", "aws_s3_bucket", "aws_iam_role", "aws_iam_policy",
                        "aws_cloudwatch_log_group", "aws_sns_topic", "aws_sqs_queue">>)
 @@ ("aws_vpc" :> <<"aws_subnet", "aws_internet_gateway", "aws_nat_gateway",
                    "aws_vpn_gateway", "aws_security_group">>)
 @@ ("aws_subnet" :> <<"aws_instance", "aws_db_instance", "aws_elasticache_cluster",
                       "aws_efs_mount_target", "aws_lambda_function">>)
 @@ ("aws_autoscaling_group" :> <<"aws_instance">>)
 @@ ("aws_ecs_cluster" :> <<"aws_ecs_service">>)
 @@ ("aws_ecs_service" :> <<"aws_ecs_task_definition">>)

REQUIRES_PARENT ==
    <<"aws_instance", "aws_db_instance", "aws_db_subnet_group",
      "aws_elasticache_cluster", "aws_lambda_function", "aws_efs_mount_target">>

\* CONTAINER_RULES.get(parent_type, [])
AllowedChildren(parent_type) ==
    IF parent_type \in DOMAIN CONTAINER_RULES THEN CONTAINER_RULES[parent_type] ELSE <<>>

_get_valid_parent_types(resource_type) ==
    LET \* The keys of CONTAINER_RULES in dict (insertion) order.
        ContainerKeys ==
            <<"aws_account", "aws_vpc", "aws_subnet", "aws_autoscaling_group",
              "aws_ecs_cluster", "aws_ecs_service">>
    IN  SelectSeq(ContainerKeys, LAMBDA p : resource_type \in Range(CONTAINER_RULES[p]))

----------------------------------------------------------------------------
(* Configuration values (JSON objects): functions from keys to values *)

EmptyConfig == [k \in {} |-> <<>>]

DefaultEgressRule ==
    [protocol |-> "-1",
     cidr_blocks |-> <<"0.0.0.0/0">>,
     description |-> "Allow all outbound traffic (AWS default)"]

\* configuration['egress'] = value
SetKey(configuration, key, value) ==
    [k \in (DOMAIN configuration) \cup {key} |->
        IF k = key THEN value ELSE configuration[k]]

----------------------------------------------------------------------------
(* Requests.  The attributes of a request are a record holding a value for *)
(* every writable field plus `fields`, the set of keys the client sent;    *)
(* a key that was not sent holds the model's field default, which is what  *)
(* the temporary instance of validate() gets from the model.               *)

RequiredFields == {"project", "resource_type", "resource_name", "terraform_address"}

FieldDefaults ==
    [project |-> 0, resource_type |-> "", resource_name |-> "",
     terraform_address |-> "", parent_resource |-> NULL,
     configuration |-> EmptyConfig, status |-> "unknown"]

WritableFields == DOMAIN FieldDefaults

\* The row a set of attributes describes.
RowOf(attrs) == [f \in WritableFields |-> attrs[f]]

----------------------------------------------------------------------------
(* TerraformResource.clean *)

NoError == [error |-> "none", listed |-> <<>>]

RECURSIVE AncestorWalk(_, _)
\* The while loop of _check_circular_reference: TRUE when an id repeats.
AncestorWalk(visited, current) ==
    IF current = NULL THEN FALSE
    ELSE IF current \in visited THEN TRUE
    ELSE AncestorWalk(visited \cup {current}, resources[current].parent_resource)

\* Faulty variant: the ancestor walk never reports a repetition.
_check_circular_reference_never(id, parent_resource) == FALSE

_check_circular_reference(id, parent_resource) ==
    AncestorWalk({id}, parent_resource)

\* Faulty variant: clean() without the REQUIRES_PARENT check.
clean_skipRequired(id, resource_type, parent_resource) ==
    IF parent_resource # NULL
       /\ resource_type \notin Range(AllowedChildren(resources[parent_resource].resource_type))
    THEN [error |-> "cannot_contain",
          listed |-> AllowedChildren(resources[parent_resource].resource_type)]
    ELSE IF parent_resource # NULL /\ AncestorWalk({id}, parent_resource)
    THEN [error |-> "circular", listed |-> <<>>]
    ELSE NoError

\* clean() of an instance with the given id, type and parent; the result is
\* the ValidationError raised (with the list its message names) or NoError.
clean(id, resource_type, parent_resource) ==
    IF resource_type \in Range(REQUIRES_PARENT) /\ parent_resource = NULL
    THEN [error |-> "missing_parent", listed |-> _get_valid_parent_types(resource_type)]
    ELSE IF parent_resource # NULL
            /\ resource_type \notin Range(AllowedChildren(resources[parent_resource].resource_type))
    THEN [error |-> "cannot_contain",
          listed |-> AllowedChildren(resources[parent_resource].resource_type)]
    ELSE IF parent_resource # NULL /\ _check_circular_reference(id, parent_resource)
    THEN [error |-> "circular", listed |-> <<>>]
    ELSE NoError

----------------------------------------------------------------------------
(* TerraformResourceSerializer *)

\* Faulty variant: field-level validation without the UniqueValidator of
\* terraform_address.
FieldErrorsNoUnique(attrs, partial, instance) ==
    {"required" : x \in {f \in RequiredFields : ~partial /\ f \notin attrs.fields}}
    \cup {"invalid_choice" : x \in {f \in {"status"} \cap attrs.fields :
                                        attrs.status \notin STATUS_CHOICES}}
    \cup {"does_not_exist" : x \in {f \in {"parent_resource"} \cap attrs.fields :
                                        attrs.parent_resource # NULL
                                        /\ attrs.parent_resource \notin DOMAIN resources}}

\* Field-level validation of the serializer (run before validate()): required
\* fields on a non-partial request, the choices of status, the existence of
\* the related parent row and the UniqueValidator of terraform_address.
FieldErrors(attrs, partial, instance) ==
    {"required" : x \in {f \in RequiredFields : ~partial /\ f \notin attrs.fields}}
    \cup {"invalid_choice" : x \in {f \in {"status"} \cap attrs.fields :
                                        attrs.status \notin STATUS_CHOICES}}
    \cup {"does_not_exist" : x \in {f \in {"parent_resource"} \cap attrs.fields :
                                        attrs.parent_resource # NULL
                                        /\ attrs.parent_resource \notin DOMAIN resources}}
    \cup {"unique" : x \in {f \in {"terraform_address"} \cap attrs.fields :
                                \E other \in (DOMAIN resources) \ {instance} :
                                    resources[other].terraform_address = attrs.terraform_address}}

\* Faulty variant: validate() that only enforces the REQUIRES_PARENT rule and never
\* looks at the type of the parent.
validate_skipContainment(attrs, id) ==
    IF attrs.resource_type \in Range(REQUIRES_PARENT) /\ attrs.parent_resource = NULL
    THEN [error |-> "missing_parent", listed |-> _get_valid_parent_types(attrs.resource_type)]
    ELSE NoError

\* validate(attrs): clean() of a temporary instance built from attrs alone,
\* carrying the id of the instance being updated (a fresh id on create).
validate(attrs, id) ==
    clean(id, attrs.resource_type, attrs.parent_resource)

\* The primary key of a new row (uuid4): here the first id no stored row has.
FreshId ==
    CHOOSE i \in 1..(Cardinality(DOMAIN resources) + 1) :
        i \notin DOMAIN resources /\ \A j \in 1..(i - 1) : j \in DOMAIN resources

\* Faulty variant: the default rule is added only when the 'egress' key is missing.
CreatedConfigurationKeyOnly(attrs) ==
    IF attrs.resource_type = "aws_security_group" /\ "egress" \notin DOMAIN attrs.configuration
    THEN SetKey(attrs.configuration, "egress", <<DefaultEgressRule>>)
    ELSE attrs.configuration

\* The egress step of create(): the configuration the new row ends up with.
CreatedConfiguration(attrs) ==
    IF attrs.resource_type = "aws_security_group"
       /\ ("egress" \notin DOMAIN attrs.configuration \/ attrs.configuration["egress"] = <<>>)
    THEN SetKey(attrs.configuration, "egress", <<DefaultEgressRule>>)
    ELSE attrs.configuration

\* What the last request answered: the handler, the HTTP status, the kinds of
\* the validation errors, the types the error message lists, the id of the row
\* a create returned, and what Model.delete() reports as deleted.
Respond(op, code, errors, listed) ==
    [op |-> op, code |-> code, errors |-> errors, listed |-> listed,
     id |-> NULL, deleted |-> [resources |-> 0, dependencies |-> 0]]

\* POST /resources/
CreateResource(attrs) ==
    /\ LET fieldErrors == FieldErrors(attrs, FALSE, NULL)
           id == FreshId
       IN  IF fieldErrors # {}
           THEN /\ response' = Respond("create", 400, fieldErrors, <<>>)
                /\ UNCHANGED <<resources, dependencies>>
           ELSE LET cleaned == validate(attrs, id)
                IN  IF cleaned.error # "none"
                    THEN /\ response' = Respond("create", 400, {cleaned.error}, cleaned.listed)
                         /\ UNCHANGED <<resources, dependencies>>
                    ELSE /\ resources' =
                              (id :> [RowOf(attrs) EXCEPT !.configuration = CreatedConfiguration(attrs)])
                              @@ resources
                         /\ response' = [Respond("create", 201, {}, <<>>) EXCEPT !.id = id]
                         /\ UNCHANGED dependencies

\* Faulty variant: an update that runs the egress step of create() on the row
\* it saves.
UpdatedRowWithEgressStep(row, attrs) ==
    LET saved == [f \in WritableFields |-> IF f \in attrs.fields THEN attrs[f] ELSE row[f]]
    IN  [saved EXCEPT !.configuration = CreatedConfiguration(saved)]

\* ModelSerializer.update: setattr for every validated key, then save().
UpdatedRow(row, attrs) ==
    [f \in WritableFields |-> IF f \in attrs.fields THEN attrs[f] ELSE row[f]]

\* PUT (partial = FALSE) and PATCH (partial = TRUE) /resources/{id}/: the
\* partial_update handler is update with partial = True.
UpdateResource(id, attrs, partial) ==
    /\ id \in DOMAIN resources
    /\ LET fieldErrors == FieldErrors(attrs, partial, id)
           op == "update"
       IN  IF fieldErrors # {}
           THEN /\ response' = Respond(op, 400, fieldErrors, <<>>)
                /\ UNCHANGED <<resources, dependencies>>
           ELSE LET cleaned == validate(attrs, id)
                IN  IF cleaned.error # "none"
                    THEN /\ response' = Respond(op, 400, {cleaned.error}, cleaned.listed)
                         /\ UNCHANGED <<resources, dependencies>>
                    ELSE /\ resources' = [resources EXCEPT ![id] = UpdatedRow(@, attrs)]
                         /\ response' = Respond(op, 200, {}, <<>>)
                         /\ UNCHANGED dependencies

----------------------------------------------------------------------------
(* Deletion: the collector of on_delete = CASCADE *)

\* Faulty variant: only the rows directly contained in the frontier are collected.
CollectDirect(seen, frontier) ==
    seen \cup frontier
    \cup {c \in DOMAIN resources : resources[c].parent_resource \in frontier}

RECURSIVE Collect(_, _)
\* The rows reached from `frontier` through contained_resources
\* (parent_resource, on_delete = CASCADE); `seen` are the rows already collected.
Collect(seen, frontier) ==
    IF frontier = {} THEN seen
    ELSE LET collected == seen \cup frontier
             related == {c \in DOMAIN resources : resources[c].parent_resource \in frontier}
         IN  Collect(collected, related \ collected)

\* Faulty variant: only dependencies_from cascades.
RemainingDependenciesFromOnly(deleted) ==
    [e \in {d \in DOMAIN dependencies : d.from_resource \notin deleted} |-> dependencies[e]]

\* ResourceDependency rows collected through dependencies_from and
\* dependencies_to (on_delete = CASCADE) are deleted, the others stay.
RemainingDependencies(deleted) ==
    [e \in {d \in DOMAIN dependencies :
                d.from_resource \notin deleted /\ d.to_resource \notin deleted}
        |-> dependencies[e]]

\* DELETE /resources/{id}/
DestroyResource(id) ==
    /\ id \in DOMAIN resources
    /\ LET deleted == Collect({}, {id})
       IN  /\ resources' = [r \in (DOMAIN resources) \ deleted |-> resources[r]]
           /\ dependencies' = RemainingDependencies(deleted)
           /\ response' =
                [Respond("destroy", 204, {}, <<>>) EXCEPT
                    !.deleted = [resources |-> Cardinality(deleted),
                                 dependencies |-> BagCardinality(dependencies)
                                                  - BagCardinality(RemainingDependencies(deleted))]]

----------------------------------------------------------------------------
(* TerraformResource: the graph walks get_all_children and                  *)
(* get_hierarchy_path                                                       *)

\* self.contained_resources.all(): the rows whose parent_resource is id.
contained_resources(id) ==
    LET \* The ids of a set of rows as the list a queryset yields.  The order of the
        \* rows is the one of their keys here.
        RECURSIVE Ordered(_)
        Ordered(S) ==
            IF S = {} THEN <<>>
            ELSE LET first == CHOOSE x \in S : \A y \in S : x <= y
                 IN  <<first>> \o Ordered(S \ {first})
    IN  Ordered({c \in DOMAIN resources : resources[c].parent_resource = id})

\* Faulty variant: the children alone, without what they contain.
get_all_children_direct(id) == contained_resources(id)

RECURSIVE get_all_children(_)
\* children = list(contained_resources); for every child of that list (a
\* copy), children.extend(child.get_all_children()).
get_all_children(id) ==
    LET children == contained_resources(id)
        extend[k \in 0..Len(children)] ==
            IF k = 0 THEN children
            ELSE extend[k - 1] \o get_all_children(children[k])
    IN  extend[Len(children)]

RECURSIVE join(_, _)
\* separator.join(path) of a list of strings, as the list of its pieces.
join(separator, path) ==
    IF Len(path) = 0 THEN <<>>
    ELSE IF Len(path) = 1 THEN <<path[1]>>
    ELSE <<path[1], separator>> \o join(separator, Tail(path))

RECURSIVE PathWalk(_, _)
\* The while loop of get_hierarchy_path: path.insert(0, current.resource_name)
\* until current is None.
PathWalk(path, current) ==
    IF current = NULL THEN path
    ELSE PathWalk(<<resources[current].resource_name>> \o path,
                  resources[current].parent_resource)

\* Faulty variant: the names in the order the walk meets them (append
\* instead of insert(0)).
get_hierarchy_path_append(id) ==
    LET RECURSIVE Up(_, _)
        Up(path, current) ==
            IF current = NULL THEN path
            ELSE Up(Append(path, resources[current].resource_name),
                    resources[current].parent_resource)
    IN  join(" > ", Up(<<resources[id].resource_name>>, resources[id].parent_resource))

get_hierarchy_path(id) ==
    join(" > ", PathWalk(<<resources[id].resource_name>>, resources[id].parent_resource))

----------------------------------------------------------------------------
(* The graph walks, loop by loop: what each has done after a number of      *)
(* iterations, so that a walk that does not end can be told from one that   *)
(* does.                                                                    *)

RECURSIVE HierarchyWalk(_, _)
\* The while loop of get_hierarchy_path from `current`: TRUE when it has ended
\* within `iterations` iterations.
HierarchyWalk(current, iterations) ==
    IF current = NULL THEN TRUE
    ELSE IF iterations = 0 THEN FALSE
    ELSE HierarchyWalk(resources[current].parent_resource, iterations - 1)

RECURSIVE ChildrenWalk(_, _)
\* get_all_children(id): TRUE when every nested call has returned within
\* `depth` levels of recursion.
ChildrenWalk(id, depth) ==
    \A child \in {c \in DOMAIN resources : resources[c].parent_resource = id} :
        depth > 0 /\ ChildrenWalk(child, depth - 1)

RECURSIVE CircularWalk(_, _, _)
\* The while loop of _check_circular_reference: TRUE when it has ended (by
\* running out of ancestors or by raising) within `iterations` iterations.
CircularWalk(visited, current, iterations) ==
    IF current = NULL \/ current \in visited THEN TRUE
    ELSE IF iterations = 0 THEN FALSE
    ELSE CircularWalk(visited \cup {current}, resources[current].parent_resource,
                      iterations - 1)

----------------------------------------------------------------------------
(* AWSTemplate.create: the rows the template inserts with objects.create,   *)
(* one write after the other and outside any transaction.  The template is  *)
(* called without options, so the region is the default one.                *)

\* The primary key of a new row of a table (uuid4): the first id it lacks.
FreshIdIn(table) ==
    CHOOSE i \in 1..(Cardinality(DOMAIN table) + 1) :
        i \notin DOMAIN table /\ \A j \in 1..(i - 1) : j \in DOMAIN table

\* TerraformResource.objects.create: save() without clean(); the database
\* enforces unique = True of terraform_address.  Nothing is written once an
\* earlier write of the template has raised.
objects_create(db, row) ==
    IF db.error # "none" THEN db
    ELSE IF \E other \in DOMAIN db.resources :
                db.resources[other].terraform_address = row.terraform_address
    THEN [db EXCEPT !.error = "IntegrityError"]
    ELSE [db EXCEPT !.resources = (FreshIdIn(db.resources) :> row) @@ @,
                    !.created = Append(@, FreshIdIn(db.resources))]

RECURSIVE CreateSubnets(_, _, _, _)
\* for i, az in enumerate(availability_zones): the subnet data source of az
\* under the default VPC.
CreateSubnets(db, project, zones, default_vpc) ==
    LET \* az.replace("-", "_")
        replace_dash(az) ==
            CASE az = "us-east-1a" -> "us_east_1a"
              [] az = "us-east-1b" -> "us_east_1b"
              [] az = "us-east-1c" -> "us_east_1c"

        SubnetAddress(suffix) ==
            CASE suffix = "us_east_1a" -> "data.aws_subnet.default_us_east_1a"
              [] suffix = "us_east_1b" -> "data.aws_subnet.default_us_east_1b"
              [] suffix = "us_east_1c" -> "data.aws_subnet.default_us_east_1c"

        \* f'default_{...}' and f'data.aws_subnet.default_{...}'
        SubnetName(suffix) ==
            CASE suffix = "us_east_1a" -> "default_us_east_1a"
              [] suffix = "us_east_1b" -> "default_us_east_1b"
              [] suffix = "us_east_1c" -> "default_us_east_1c"
    IN  IF zones = <<>> THEN db
        ELSE CreateSubnets(
                objects_create(db,
                    [FieldDefaults EXCEPT
                        !.project = project,
                        !.parent_resource = default_vpc,
                        !.resource_type = "aws_subnet",
                        !.resource_name = SubnetName(replace_dash(Head(zones))),
                        !.terraform_address = SubnetAddress(replace_dash(Head(zones))),
                        !.configuration = [availability_zone |-> Head(zones),
                                           default_for_az |-> TRUE,
                                           vpc_id |-> "${data.aws_vpc.default.id}"],
                        !.status = "created"]),
                project, Tail(zones), default_vpc)

\* AWSTemplate.create(project): the tables after the call, the error it
\* raised (if any) and the ids of the rows it created.
AWSTemplate_create(project) ==
    LET \* TerraformProvider.objects.create: unique_together (project, name, alias).
        CreateProvider(db, row) ==
            IF db.error # "none" THEN db
            ELSE IF \E other \in db.providers :
                        /\ other.project = row.project
                        /\ other.name = row.name
                        /\ other.alias = row.alias
            THEN [db EXCEPT !.error = "IntegrityError"]
            ELSE [db EXCEPT !.providers = @ \cup {row}]

        \* The tables as the template finds them.
        Tables == [providers |-> providers, resources |-> resources, error |-> "none", created |-> <<>>]

        DefaultRegion == "us-east-1"

        \* [f"{region}a", f"{region}b", f"{region}c"]
        availability_zones(region) ==
            IF region = "us-east-1" THEN <<"us-east-1a", "us-east-1b", "us-east-1c">> ELSE <<>>

        \* The id of the k-th row the template created (NULL when it was not).
        CreatedRow(db, k) == IF k <= Len(db.created) THEN db.created[k] ELSE NULL

        region == DefaultRegion
        withProvider ==
            CreateProvider(Tables,
                [project |-> project, name |-> "aws", alias |-> "",
                 version |-> "~> 5.0", region |-> region, credential |-> NULL])
        withAccount ==
            objects_create(withProvider,
                [FieldDefaults EXCEPT
                    !.project = project,
                    !.resource_type = "aws_account",
                    !.resource_name = "main",
                    !.terraform_address = "aws_account.main",
                    !.configuration = [account_type |-> "container",
                                       description |-> "AWS Account container"],
                    !.status = "created"])
        withVpc ==
            objects_create(withAccount,
                [FieldDefaults EXCEPT
                    !.project = project,
                    !.parent_resource = CreatedRow(withAccount, 1),
                    !.resource_type = "aws_vpc",
                    !.resource_name = "default",
                    !.terraform_address = "data.aws_vpc.default",
                    !.configuration = [default |-> TRUE],
                    !.status = "created"])
    IN  CreateSubnets(withVpc, project, availability_zones(region), CreatedRow(withVpc, 2))

\* A call of the template for a project: every write made before an error is
\* kept, and the error is what the caller gets.
ProvisionProject(project) ==
    LET after == AWSTemplate_create(project)
    IN  /\ providers' = after.providers
        /\ resources' = after.resources
        /\ response' =
             [created |-> [providers |-> Cardinality(after.providers \ providers),
                           resources |-> after.created],
              project |-> project]
             @@ Respond("AWSTemplate.create", 0,
                        IF after.error = "none" THEN {} ELSE {after.error}, <<>>)
        /\ UNCHANGED dependencies

----------------------------------------------------------------------------
(* TerraformExecution and TerraformExecutionViewSet                         *)

EXECUTION_STATUS_CHOICES == {"pending", "running", "success", "failed", "cancelled"}

\* Faulty variant: cancel without the check of the status.
CancelExecutionUnchecked(id) ==
    /\ id \in DOMAIN executions
    /\ executions' = [executions EXCEPT ![id].status = "cancelled"]
    /\ response' = [Respond("cancel", 200, {}, <<>>) EXCEPT !.id = id]

\* POST /executions/{id}/cancel/
CancelExecution(id) ==
    /\ id \in DOMAIN executions
    /\ IF executions[id].status # "running"
       THEN /\ response' = [Respond("cancel", 400, {"Only running executions can be cancelled"}, <<>>)
                               EXCEPT !.id = id]
            /\ UNCHANGED executions
       ELSE /\ executions' = [executions EXCEPT ![id].status = "cancelled"]
            /\ response' = [Respond("cancel", 200, {}, <<>>) EXCEPT !.id = id]

----------------------------------------------------------------------------
(* The task-manager lambda.  A task of the cluster has the lastStatus and   *)
(* desiredStatus ECS reports and, once its network interface is attached,   *)
(* a public IP.                                                             *)

\* get_running_task(): a listed task whose lastStatus is RUNNING, or None.
get_running_task ==
    LET \* ecs_client.list_tasks(desiredStatus='RUNNING'), which is also the filter of
        \* a list_tasks call without desiredStatus, followed by describe_tasks.
        ListedTasks == {t \in DOMAIN aws.tasks : aws.tasks[t].desiredStatus = "RUNNING"}
    IN  IF \E t \in ListedTasks : aws.tasks[t].lastStatus = "RUNNING"
        THEN CHOOSE t \in ListedTasks :
                /\ aws.tasks[t].lastStatus = "RUNNING"
                /\ \A u \in ListedTasks : aws.tasks[u].lastStatus = "RUNNING" => t <= u
        ELSE NULL

\* ecs_client.stop_task: ECS sets the desired status of the task to STOPPED.
stop_task(ecs, task_arn) == [ecs EXCEPT ![task_arn].desiredStatus = "STOPPED"]

\* cleanup_stopped_tasks(): stop_task for every listed task whose lastStatus
\* is neither RUNNING nor STOPPED.
cleanup_stopped_tasks(ecs) ==
    [t \in DOMAIN ecs |->
        IF /\ ecs[t].desiredStatus = "RUNNING"
           /\ ecs[t].lastStatus \notin {"RUNNING", "STOPPED"}
        THEN stop_task(ecs, t)[t] ELSE ecs[t]]

\* The lambda's answer: the HTTP status and the status of the body.
Answer(op, statusCode, status) ==
    [status |-> status] @@ Respond(op, statusCode, {}, <<>>)

\* ensure_backend_running().  start_new_task sleeps ten seconds between
\* run_task and describe_tasks; `attached` tells whether ECS attached the
\* network interface of the new task within that time.
ensure_backend_running(attached) ==
    LET running_task == get_running_task
    IN  IF running_task # NULL
        THEN IF aws.tasks[running_task].public_ip
             THEN /\ aws' = [aws EXCEPT !.integration = running_task]
                  /\ response' = Answer("ensure_backend_running", 200, "ready")
             ELSE /\ response' = Answer("ensure_backend_running", 202, "starting")
                  /\ UNCHANGED aws
        ELSE LET cleaned == cleanup_stopped_tasks(aws.tasks)
                 task_arn == FreshIdIn(aws.tasks)
                 task == [lastStatus |-> IF attached THEN "PENDING" ELSE "PROVISIONING",
                          desiredStatus |-> "RUNNING",
                          public_ip |-> attached]
             IN  /\ aws' = [tasks |-> (task_arn :> task) @@ cleaned,
                            integration |-> IF attached THEN task_arn ELSE aws.integration]
                 /\ response' =
                      IF attached
                      THEN Answer("ensure_backend_running", 200, "started")
                      ELSE Answer("ensure_backend_running", 202, "starting")

----------------------------------------------------------------------------
(* CloudProviderCredential and CloudProviderCredentialViewSet               *)

\* Faulty variant: the update that clears the flag is not filtered by user.
ClearedDefaultsAllUsers(request_user, credential) ==
    [c \in DOMAIN credentials |->
        IF /\ credentials[c].provider_type = credentials[credential].provider_type
           /\ credentials[c].is_default
           /\ c # credential
        THEN [credentials[c] EXCEPT !.is_default = FALSE]
        ELSE credentials[c]]

\* objects.filter(user, provider_type, is_default=True).exclude(id)
\* .update(is_default=False)
ClearedDefaults(request_user, credential) ==
    [c \in DOMAIN credentials |->
        IF /\ credentials[c].user = request_user
           /\ credentials[c].provider_type = credentials[credential].provider_type
           /\ credentials[c].is_default
           /\ c # credential
        THEN [credentials[c] EXCEPT !.is_default = FALSE]
        ELSE credentials[c]]

----------------------------------------------------------------------------
(* ResourceDependency and its REST handlers (ResourceDependencyViewSet with *)
(* ResourceDependencySerializer, a plain ModelSerializer)                   *)

DEPENDENCY_TYPE_CHOICES == {"implicit", "explicit", "data"}

\* Faulty variant: no UniqueTogetherValidator.
DependencyErrorsNoUnique(row, others) ==
    {"does_not_exist" : x \in {f \in {row.from_resource, row.to_resource} :
                                    f \notin DOMAIN resources}}
    \cup {"invalid_choice" : x \in {t \in {row.dependency_type} :
                                        t \notin DEPENDENCY_TYPE_CHOICES}}

\* The validators the serializer derives from the model: the related rows must
\* exist, the type must be a choice, and (unique_together) no other row has
\* the same (from_resource, to_resource).  `others` is the table without the
\* instance being updated.
DependencyErrors(row, others) ==
    {"does_not_exist" : x \in {f \in {row.from_resource, row.to_resource} :
                                    f \notin DOMAIN resources}}
    \cup {"invalid_choice" : x \in {t \in {row.dependency_type} :
                                        t \notin DEPENDENCY_TYPE_CHOICES}}
    \cup {"unique" : x \in {d \in BagToSet(others) :
                                d.from_resource = row.from_resource
                                /\ d.to_resource = row.to_resource}}

\* POST /dependencies/
CreateDependency(row) ==
    /\ LET errors == DependencyErrors(row, dependencies)
       IN  IF errors # {}
           THEN /\ response' = Respond("add_dependency", 400, errors, <<>>)
                /\ UNCHANGED <<resources, dependencies>>
           ELSE /\ dependencies' = dependencies (+) SetToBag({row})
                /\ response' = Respond("add_dependency", 201, {}, <<>>)
                /\ UNCHANGED resources

----------------------------------------------------------------------------
(* POST /resources/ write by write. No transaction is opened around the     *)
(* request (no transaction.atomic, no ATOMIC_REQUESTS), so under Django's   *)
(* autocommit each save() is committed as it is made.                       *)

\* No create request is between its writes.
NoPending == [id |-> NULL]

----------------------------------------------------------------------------
(* HCLParser: the values python-hcl2 hands over, and the extractors         *)

\* A str is the sequence of its tokens: identifiers, and the punctuation
\* ".", "${" and "}". A dict is the sequence of its items in insertion
\* order, a list the sequence of its elements.
Str(text) == [kind |-> "str", text |-> text]

List(items) == [kind |-> "list", items |-> items]

Dict(items) == [kind |-> "dict", items |-> items]

Item(key, value) == [key |-> key, value |-> value]

\* The concatenation of the sequences of a sequence, in order.
RECURSIVE Flatten(_)

Flatten(seqs) ==
    IF seqs = <<>> THEN <<>> ELSE Head(seqs) \o Flatten(Tail(seqs))

\* config if isinstance(config, dict) else {}
ConfigurationOf(config) == IF config.kind = "dict" THEN config ELSE Dict(<<>>)

\* for x in value: the elements of a list, the keys of a dict, the characters
\* of a str.
Iterate(value) ==
    CASE value.kind = "list" -> value.items
      [] value.kind = "dict" -> [k \in 1..Len(value.items) |-> Str(value.items[k].key)]
      [] value.kind = "str" -> [k \in 1..Len(value.text) |-> Str(<<value.text[k]>>)]

\* instance.items() raises AttributeError unless instance is a dict: some
\* pass of the third loop meets a value that is none.
ItemsRaises(section_data) ==
    \E b \in 1..Len(section_data) :
        \E t \in 1..Len(section_data[b].items) :
            \E instance \in Range(Iterate(section_data[b].items[t].value)) :
                instance.kind # "dict"

\* The four nested loops of _extract_resources, one record per pass of the
\* innermost one; an exception leaves the caller without any record.
_extract_resources(resources_data, file_path) ==
    IF ItemsRaises(resources_data)
    THEN [error |-> "AttributeError", records |-> <<>>]
    ELSE [error |-> "none", records |->
      Flatten([b \in 1..Len(resources_data) |->
        Flatten([t \in 1..Len(resources_data[b].items) |->
          LET resource_type == resources_data[b].items[t].key
              instances == Iterate(resources_data[b].items[t].value)
          IN  Flatten([i \in 1..Len(instances) |->
                [n \in 1..Len(instances[i].items) |->
                  LET resource_name == instances[i].items[n].key
                      config == instances[i].items[n].value
                  IN  [resource_type |-> resource_type,
                       resource_name |-> resource_name,
                       configuration |-> ConfigurationOf(config),
                       file_path |-> file_path,
                       terraform_address |->
                           resource_type \o <<".">> \o resource_name]]])])])]

\* _extract_data_sources: as _extract_resources, with the data prefix in the
\* type and in the address.
_extract_data_sources(data_sources_data, file_path) ==
    IF ItemsRaises(data_sources_data)
    THEN [error |-> "AttributeError", records |-> <<>>]
    ELSE [error |-> "none", records |->
      Flatten([b \in 1..Len(data_sources_data) |->
        Flatten([t \in 1..Len(data_sources_data[b].items) |->
          LET data_type == data_sources_data[b].items[t].key
              instances == Iterate(data_sources_data[b].items[t].value)
          IN  Flatten([i \in 1..Len(instances) |->
                [n \in 1..Len(instances[i].items) |->
                  LET data_name == instances[i].items[n].key
                      config == instances[i].items[n].value
                  IN  [resource_type |-> <<"data", ".">> \o data_type,
                       resource_name |-> data_name,
                       configuration |-> ConfigurationOf(config),
                       file_path |-> file_path,
                       terraform_address |->
                           <<"data", ".">> \o data_type \o <<".">> \o data_name]]])])])]

----------------------------------------------------------------------------
(* HCLParser: references and dependencies *)

\* The index of the first token of text at or after from that is token, and
\* Len(text) + 1 when there is none.
Find(text, token, from) ==
    IF \E k \in from..Len(text) : text[k] = token
    THEN CHOOSE k \in from..Len(text) :
            text[k] = token /\ \A j \in from..(k - 1) : text[j] # token
    ELSE Len(text) + 1

\* re.findall(r'\$\{([^}]+)\}', data) from position pos on: the scan goes left
\* to right; at a "${" followed by one token or more that are not "}" and
\* then by "}" it takes what is between the two and goes on after the "}".
RECURSIVE findall(_, _)

findall(text, pos) ==
    IF pos > Len(text)
    THEN <<>>
    ELSE LET close == Find(text, "}", pos + 1)
         IN  IF text[pos] = "${" /\ close <= Len(text) /\ close > pos + 1
             THEN <<SubSeq(text, pos + 1, close - 1)>> \o findall(text, close + 1)
             ELSE findall(text, pos + 1)

\* str.split('.'): the pieces between the dots, empty ones included.
RECURSIVE split(_)

split(text) ==
    LET dot == Find(text, ".", 1)
    IN  IF dot > Len(text)
        THEN <<text>>
        ELSE <<SubSeq(text, 1, dot - 1)>> \o split(SubSeq(text, dot + 1, Len(text)))

\* Faulty variant: only var. and local. are skipped.
startswith_reserved_notData(match) ==
    \E prefix \in {<<"var", ".">>, <<"local", ".">>} :
        Len(match) >= Len(prefix) /\ SubSeq(match, 1, Len(prefix)) = prefix

\* match.startswith(('var.', 'local.', 'data.'))
startswith_reserved(match) ==
    \E prefix \in {<<"var", ".">>, <<"local", ".">>, <<"data", ".">>} :
        Len(match) >= Len(prefix) /\ SubSeq(match, 1, Len(prefix)) = prefix

\* _find_references_in_dict(data): the references of the values of a dict,
\* of the items of a list, of a str; nothing for any other value.
RECURSIVE _find_references_in_dict(_)

_find_references_in_dict(data) ==
    LET NotReserved(match) == ~startswith_reserved(match)
    IN  CASE data.kind = "dict" ->
                Flatten([k \in 1..Len(data.items) |->
                            _find_references_in_dict(data.items[k].value)])
          [] data.kind = "list" ->
                Flatten([k \in 1..Len(data.items) |-> _find_references_in_dict(data.items[k])])
          [] data.kind = "str" ->
                IF "${" \in Range(data.text) /\ "}" \in Range(data.text)
                THEN SelectSeq(findall(data.text, 1), NotReserved)
                ELSE <<>>
          [] OTHER -> <<>>

\* The edges of one reference list: one per reference of two parts or more.
RECURSIVE EdgesOf(_, _, _)

EdgesOf(from_address, refs, least) ==
    IF refs = <<>>
    THEN <<>>
    ELSE LET parts == split(Head(refs))
         IN  (IF Len(parts) >= least
              THEN <<<<from_address, parts[1] \o <<".">> \o parts[2], "implicit">>>>
              ELSE <<>>)
             \o EdgesOf(from_address, Tail(refs), least)

\* Faulty variant: a reference needs a third part, the attribute, to count.
extract_dependencies_withAttribute(resources_list) ==
    Flatten([r \in 1..Len(resources_list) |->
                EdgesOf(resources_list[r].terraform_address,
                        _find_references_in_dict(resources_list[r].configuration), 3)])

\* extract_dependencies(resources)
extract_dependencies(resources_list) ==
    Flatten([r \in 1..Len(resources_list) |->
                EdgesOf(resources_list[r].terraform_address,
                        _find_references_in_dict(resources_list[r].configuration), 2)])

----------------------------------------------------------------------------
(* HCLParser.parse_project *)

\* key in d, and d.get(key, default)
HasKey(d, key) == \E k \in 1..Len(d.items) : d.items[k].key = key

Get(d, key, default) ==
    IF HasKey(d, key)
    THEN d.items[CHOOSE k \in 1..Len(d.items) : d.items[k].key = key].value
    ELSE default

None == [kind |-> "none"]

False == [kind |-> "bool", value |-> FALSE]

\* _extract_variables: one record per named body that is a dict.
_extract_variables(variables_data, file_path) ==
    Flatten([b \in 1..Len(variables_data) |->
      Flatten([n \in 1..Len(variables_data[b].items) |->
        LET var_name == variables_data[b].items[n].key
            config == variables_data[b].items[n].value
        IN  IF config.kind = "dict"
            THEN <<[name |-> var_name,
                    type |-> Get(config, <<"type">>, Str(<<"string">>)),
                    description |-> Get(config, <<"description">>, Str(<<>>)),
                    default_value |-> Get(config, <<"default">>, None),
                    sensitive |-> Get(config, <<"sensitive">>, False),
                    file_path |-> file_path]>>
            ELSE <<>>])])

\* _extract_outputs
_extract_outputs(outputs_data, file_path) ==
    Flatten([b \in 1..Len(outputs_data) |->
      Flatten([n \in 1..Len(outputs_data[b].items) |->
        LET output_name == outputs_data[b].items[n].key
            config == outputs_data[b].items[n].value
        IN  IF config.kind = "dict"
            THEN <<[name |-> output_name,
                    value |-> Get(config, <<"value">>, None),
                    description |-> Get(config, <<"description">>, Str(<<>>)),
                    sensitive |-> Get(config, <<"sensitive">>, False),
                    file_path |-> file_path]>>
            ELSE <<>>])])

\* _extract_providers: one record per element of what the name maps to that
\* is a dict.
_extract_providers(providers_data, file_path) ==
    Flatten([b \in 1..Len(providers_data) |->
      Flatten([n \in 1..Len(providers_data[b].items) |->
        LET provider_name == providers_data[b].items[n].key
            configs == Iterate(providers_data[b].items[n].value)
        IN  Flatten([c \in 1..Len(configs) |->
              IF configs[c].kind = "dict"
              THEN <<[name |-> provider_name,
                      alias |-> Get(configs[c], <<"alias">>, Str(<<>>)),
                      region |-> Get(configs[c], <<"region">>, Str(<<>>)),
                      version |-> Get(configs[c], <<"version">>, Str(<<>>)),
                      configuration |-> configs[c],
                      file_path |-> file_path]>>
              ELSE <<>>])])])

\* _extract_modules
_extract_modules(modules_data, file_path) ==
    Flatten([b \in 1..Len(modules_data) |->
      Flatten([n \in 1..Len(modules_data[b].items) |->
        LET module_name == modules_data[b].items[n].key
            config == modules_data[b].items[n].value
        IN  IF config.kind = "dict"
            THEN <<[name |-> module_name,
                    source |-> Get(config, <<"source">>, Str(<<>>)),
                    version |-> Get(config, <<"version">>, Str(<<>>)),
                    configuration |-> config,
                    file_path |-> file_path]>>
            ELSE <<>>])])

\* The sections of a parsed file in the order parse_project handles them,
\* each with the list of the result it extends.
Sections ==
    <<[key |-> <<"resource">>, list |-> "resources"],
      [key |-> <<"data">>, list |-> "data_sources"],
      [key |-> <<"variable">>, list |-> "variables"],
      [key |-> <<"output">>, list |-> "outputs"],
      [key |-> <<"provider">>, list |-> "providers"],
      [key |-> <<"module">>, list |-> "modules"]>>

\* The extractor of section k applied to its part of the parsed file.
Extracted(k, section_data, file_path) ==
    CASE k = 1 -> _extract_resources(section_data, file_path)
      [] k = 2 -> _extract_data_sources(section_data, file_path)
      [] k = 3 -> [error |-> "none", records |-> _extract_variables(section_data, file_path)]
      [] k = 4 -> [error |-> "none", records |-> _extract_outputs(section_data, file_path)]
      [] k = 5 -> [error |-> "none", records |-> _extract_providers(section_data, file_path)]
      [] k = 6 -> [error |-> "none", records |-> _extract_modules(section_data, file_path)]

\* The lists and the terraform block of parse_project before the first file.
EmptyResult ==
    [resources |-> <<>>, data_sources |-> <<>>, variables |-> <<>>, outputs |-> <<>>,
     providers |-> <<>>, modules |-> <<>>, terraform |-> Dict(<<>>)]

\* The body of the try from section k on: every section the file has
\* extends its list, the terraform block replaces the one kept so far; an
\* exception ends the body and leaves what was extended before it.
RECURSIVE TryBody(_, _, _, _)

TryBody(all, parsed, file_path, k) ==
    IF k > Len(Sections)
    THEN [all |-> IF HasKey(parsed, <<"terraform">>)
                  THEN [all EXCEPT !.terraform =
                            IF Get(parsed, <<"terraform">>, None).items # <<>>
                            THEN Get(parsed, <<"terraform">>, None).items[1]
                            ELSE Dict(<<>>)]
                  ELSE all,
          error |-> "none"]
    ELSE IF ~HasKey(parsed, Sections[k].key)
         THEN TryBody(all, parsed, file_path, k + 1)
         ELSE LET extracted == Extracted(k, Get(parsed, Sections[k].key, None).items, file_path)
              IN  IF extracted.error # "none"
                  THEN [all |-> all, error |-> extracted.error]
                  ELSE TryBody([all EXCEPT ![Sections[k].list] = @ \o extracted.records],
                               parsed, file_path, k + 1)

\* parse_file, then the rest of the try: a file hcl2 cannot load raises
\* ValueError before anything is extracted.
Try(all, file, file_path) ==
    IF ~file.loads
    THEN [all |-> all, error |-> "ValueError"]
    ELSE TryBody(all, file.parsed, file_path, 1)

\* Faulty variant: the exception leaves parse_project.
except_raise(scan, tried, file_path) ==
    [scan EXCEPT !.all = tried.all, !.raised = TRUE]

\* except Exception as e: print(...); continue
except_continue(scan, tried, file_path) ==
    [scan EXCEPT !.all = tried.all,
                 !.printed = Append(@, [file_path |-> file_path, error |-> tried.error])]

\* The path of the i-th file of find_terraform_files().
PathOf(i) == <<"f", i, ".tf">>

\* One pass of the loop over tf_files.
HandleFile ==
    /\ ~output.returned
    /\ ~output.raised
    /\ output.tf_file <= Len(input)
    /\ LET file_path == PathOf(output.tf_file)
           tried == Try(output.all, input[output.tf_file], file_path)
           visited == [output EXCEPT !.tf_file = @ + 1, !.visited = Append(@, file_path)]
       IN  output' = IF tried.error = "none"
                     THEN [visited EXCEPT !.all = tried.all]
                     ELSE except_continue(visited, tried, file_path)
    /\ UNCHANGED <<resources, dependencies, response, pending, input, providers, executions, credentials, aws>>

\* return {...} after the last file.
Return ==
    /\ ~output.returned
    /\ ~output.raised
    /\ output.tf_file > Len(input)
    /\ output' = [output EXCEPT !.returned = TRUE, !.result = output.all]
    /\ UNCHANGED <<resources, dependencies, response, pending, input, providers, executions, credentials, aws>>

----------------------------------------------------------------------------
(* Inputs *)

Request(fields, values) == values @@ [fields |-> fields]

\* An id no stored row has, and ids of stored rows: what clients send as keys.
KeyInputs == (DOMAIN resources) \cup {FreshId}

\* Resource types clients submit: the containment chain vpc > subnet >
\* instance, and a type that requires a parent.
TypeInputs == {"aws_vpc", "aws_subnet", "aws_instance", "aws_db_subnet_group"}

\* Types clients submit in updates.
UpdateTypeInputs == {"aws_vpc", "aws_subnet", "aws_instance"}

\* Parents clients submit: none, or any id (stored or not).
ParentInputs == {NULL} \cup Ids

AddressPool == <<"r1", "r2", "r3", "r4", "r5", "r6">>

\* Creates of the containment scenarios: every type under every parent, the
\* parent key sent or not, an address no row has, no configuration.
CreateInputs ==
    {Request(RequiredFields \cup {"parent_resource"},
             [FieldDefaults EXCEPT !.project = 1, !.resource_type = t,
                                   !.resource_name = "main",
                                   !.terraform_address = AddressPool[FreshId],
                                   !.parent_resource = p]) :
        t \in TypeInputs, p \in ParentInputs}
    \cup
    {Request(RequiredFields,
             [FieldDefaults EXCEPT !.project = 1, !.resource_type = t,
                                   !.resource_name = "main",
                                   !.terraform_address = AddressPool[FreshId]]) :
        t \in TypeInputs}

NamePool == <<"n1", "n2", "n3", "n4", "n5", "n6">>

\* The users that send requests.
UserInputs == {1, 2}

\* Full updates of row id: the client repeats the stored project, name and
\* address, sends a type, and sends a parent or leaves the key out.
UpdateInputs(id) ==
    {Request(RequiredFields \cup {"parent_resource"},
             [FieldDefaults EXCEPT !.project = resources[id].project,
                                   !.resource_type = t,
                                   !.resource_name = resources[id].resource_name,
                                   !.terraform_address = resources[id].terraform_address,
                                   !.parent_resource = p]) :
        t \in UpdateTypeInputs, p \in ParentInputs}
    \cup
    {Request(RequiredFields,
             [FieldDefaults EXCEPT !.project = resources[id].project,
                                   !.resource_type = t,
                                   !.resource_name = resources[id].resource_name,
                                   !.terraform_address = resources[id].terraform_address]) :
        t \in UpdateTypeInputs}

\* Partial updates: only the type, or only the parent.
PartialUpdateInputs ==
    {Request({"resource_type"}, [FieldDefaults EXCEPT !.resource_type = t]) :
        t \in UpdateTypeInputs}
    \cup {Request({"parent_resource"}, [FieldDefaults EXCEPT !.parent_resource = p]) :
        p \in ParentInputs}

ScenarioInputs ==
    LET Address(row) ==
            CASE row.resource_type = "aws_vpc" -> "aws_vpc.main"
              [] row.resource_type = "aws_subnet" -> "aws_subnet.sub1"
              [] row.resource_type = "aws_instance" -> "aws_instance.i1"

        \* The cascade scenario: aws_vpc.main, aws_subnet.sub1 and aws_instance.i1,
        \* each created under no parent or under any stored row.
        ScenarioRows ==
            {[resource_type |-> "aws_vpc", resource_name |-> "main"],
             [resource_type |-> "aws_subnet", resource_name |-> "sub1"],
             [resource_type |-> "aws_instance", resource_name |-> "i1"]}
    IN  {Request(RequiredFields \cup {"parent_resource"},
                 [FieldDefaults EXCEPT !.project = 1, !.resource_type = row.resource_type,
                                       !.resource_name = row.resource_name,
                                       !.terraform_address = Address(row),
                                       !.parent_resource = p]) :
            row \in ScenarioRows, p \in {NULL} \cup DOMAIN resources}

ConfigurationInputs ==
    LET \* Configurations clients submit: none, an empty or a custom egress list, and
        \* a key other than egress.
        CustomEgressRule ==
            [protocol |-> "tcp", cidr_blocks |-> <<"10.0.0.0/16">>, description |-> "internal"]
    IN  {EmptyConfig,
         [k \in {"egress"} |-> <<>>],
         [k \in {"egress"} |-> <<CustomEgressRule>>],
         [k \in {"name"} |-> "web"]}

\* Creates of the configuration scenarios: a security group or a vpc without
\* parent, the configuration key sent or not.
ConfiguredCreateInputs ==
    {Request(RequiredFields \cup {"configuration"},
             [FieldDefaults EXCEPT !.project = 1, !.resource_type = t,
                                   !.resource_name = "sg1",
                                   !.terraform_address = AddressPool[FreshId],
                                   !.configuration = c]) :
        t \in {"aws_security_group", "aws_vpc"}, c \in ConfigurationInputs}
    \cup
    {Request(RequiredFields,
             [FieldDefaults EXCEPT !.project = 1, !.resource_type = t,
                                   !.resource_name = "sg1",
                                   !.terraform_address = AddressPool[FreshId]]) :
        t \in {"aws_security_group", "aws_vpc"}}

\* Partial updates of the configuration scenarios: only the configuration, or
\* only the type.
ConfiguredUpdateInputs ==
    {Request({"configuration"}, [FieldDefaults EXCEPT !.configuration = c]) :
        c \in ConfigurationInputs}
    \cup {Request({"resource_type"}, [FieldDefaults EXCEPT !.resource_type = t]) :
        t \in {"aws_security_group", "aws_vpc"}}

\* Full updates of the configuration scenarios: the client repeats the stored
\* project, name and address and sends a type and a configuration.
ConfiguredFullUpdateInputs(id) ==
    {Request(RequiredFields \cup {"configuration"},
             [FieldDefaults EXCEPT !.project = resources[id].project,
                                   !.resource_type = t,
                                   !.resource_name = resources[id].resource_name,
                                   !.terraform_address = resources[id].terraform_address,
                                   !.configuration = c]) :
        t \in {"aws_security_group", "aws_vpc"}, c \in ConfigurationInputs}

\* Statuses clients submit: every choice, and a value that is not one.
StatusInputs == STATUS_CHOICES \cup {"bogus"}

\* Addresses and projects clients submit: as many addresses as rows fit, in
\* either of two projects.
AddressInputs == {AddressPool[i] : i \in Ids}

ProjectInputs == {1, 2}

\* Creates of the address scenarios: an aws_vpc without parent, in any project
\* and at any address.
AddressCreateInputs ==
    {Request(RequiredFields,
             [FieldDefaults EXCEPT !.project = p, !.resource_type = "aws_vpc",
                                   !.resource_name = "main",
                                   !.terraform_address = a]) :
        p \in ProjectInputs, a \in AddressInputs}

\* Updates of the address scenarios: a PATCH of the address alone, and a PUT
\* that sends a project and an address.
AddressPatchInputs ==
    {Request({"terraform_address"}, [FieldDefaults EXCEPT !.terraform_address = a]) :
        a \in AddressInputs}

AddressPutInputs == AddressCreateInputs

\* The named bodies under one type: one name, or two names in one mapping.
InstanceInputs ==
    LET \* Block bodies the parser hands over: an empty and a non-empty mapping, and
        \* a value that is not a mapping.
        BodyInputs ==
            {Dict(<<>>),
             Dict(<<Item(<<"cidr_block">>, Str(<<"10.0.0.0/16">>))>>),
             Str(<<"main">>)}
    IN  {Dict(<<Item(<<name>>, body)>>) : name \in {"main", "web"}, body \in BodyInputs}
        \cup {Dict(<<Item(<<"main">>, Dict(<<>>)), Item(<<"web">>, Str(<<"main">>))>>)}

\* Sequences of at most n elements of S.
SeqUpTo(S, n) == UNION {[1..k -> S] : k \in 0..n}

\* Strings that hold one reference of every sort, or none.
ReferenceInputs ==
    {<<"${", "aws_vpc", ".", "main", ".", "id", "}">>,
     <<"${", "aws_subnet", ".", "web", "}">>,
     <<"${", "var", ".", "main", "}">>,
     <<"${", "local", ".", "main", ".", "id", "}">>,
     <<"${", "main", "}">>,
     <<"main">>}

\* Sections of the files of the scan scenarios.
ResourceSection == List(<<Dict(<<Item(<<"aws_vpc">>, List(<<Dict(<<Item(<<"main">>, Dict(<<>>))>>)>>))>>)>>)

MappedSection == List(<<Dict(<<Item(<<"aws_vpc">>, Dict(<<Item(<<"main">>, Dict(<<>>))>>))>>)>>)

NamedSection ==
    List(<<Dict(<<Item(<<"region">>, Dict(<<Item(<<"type">>, Str(<<"string">>))>>))>>),
           Dict(<<Item(<<"zone">>, Str(<<"main">>))>>)>>)

DependencyInputs ==
    LET DependencyRow(from_resource, to_resource, dependency_type) ==
            [from_resource |-> from_resource, to_resource |-> to_resource,
             dependency_type |-> dependency_type]
    IN  {DependencyRow(f, t, k) : f \in KeyInputs, t \in KeyInputs, k \in {"implicit", "explicit"}}

----------------------------------------------------------------------------
(* The store after construction, and the requests of each scenario *)

Init ==
    /\ resources = [r \in {} |-> FieldDefaults]
    /\ dependencies = EmptyBag
    /\ response = Respond("none", 0, {}, <<>>)
    /\ pending = NoPending
    /\ providers = {}
    /\ executions = <<>>
    /\ credentials = <<>>
    /\ aws = [tasks |-> <<>>, integration |-> NULL]
    /\ input = <<>>
    /\ output = <<>>

Create ==
    /\ Cardinality(DOMAIN resources) < MaxEntities
    /\ \E attrs \in CreateInputs : CreateResource(attrs)
    /\ UNCHANGED <<pending, input, output, providers, executions, credentials, aws>>

Update ==
    /\ \E id \in DOMAIN resources : \E attrs \in UpdateInputs(id) : UpdateResource(id, attrs, FALSE)
    /\ UNCHANGED <<pending, input, output, providers, executions, credentials, aws>>

PartialUpdate ==
    /\ \E id \in DOMAIN resources : \E attrs \in PartialUpdateInputs : UpdateResource(id, attrs, TRUE)
    /\ UNCHANGED <<pending, input, output, providers, executions, credentials, aws>>

Destroy ==
    /\ \E id \in DOMAIN resources : DestroyResource(id)
    /\ UNCHANGED <<pending, input, output, providers, executions, credentials, aws>>

\* Containment: creates, full and partial updates and deletes of resources.
Next ==
    \/ Create
    \/ Update
    \/ PartialUpdate
    \/ Destroy

Spec == Init /\ [][Next]_vars

CreateNamed ==
    LET \* Creates of the walk scenarios: the chain's three types under every parent,
        \* each row with a name and an address of its own.
        NamedCreateInputs ==
            {Request(RequiredFields \cup {"parent_resource"},
                     [FieldDefaults EXCEPT !.project = 1, !.resource_type = t,
                                           !.resource_name = NamePool[FreshId],
                                           !.terraform_address = AddressPool[FreshId],
                                           !.parent_resource = p]) :
                t \in UpdateTypeInputs, p \in ParentInputs}
    IN  /\ Cardinality(DOMAIN resources) < MaxEntities
        /\ \E attrs \in NamedCreateInputs : CreateResource(attrs)
        /\ UNCHANGED <<pending, input, output, providers, executions, credentials, aws>>

Retrieve ==
    LET \* GET /resources/{id}/: the serializer's hierarchy_path field of the row.
        RetrieveResource(id) ==
            /\ id \in DOMAIN resources
            /\ response' = [hierarchy_path |-> get_hierarchy_path(id)]
                           @@ [Respond("retrieve", 200, {}, <<>>) EXCEPT !.id = id]
            /\ UNCHANGED <<resources, dependencies>>
    IN  /\ \E id \in DOMAIN resources : RetrieveResource(id)
        /\ UNCHANGED <<pending, input, output, providers, executions, credentials, aws>>

GetAllChildren ==
    LET \* A call of get_all_children on the row; what it returns is kept with the
        \* answer of the call.
        CallGetAllChildren(id) ==
            /\ id \in DOMAIN resources
            /\ response' = [all_children |-> get_all_children(id)]
                           @@ [Respond("get_all_children", 0, {}, <<>>) EXCEPT !.id = id]
            /\ UNCHANGED <<resources, dependencies>>
    IN  /\ \E id \in DOMAIN resources : CallGetAllChildren(id)
        /\ UNCHANGED <<pending, input, output, providers, executions, credentials, aws>>

\* Graph walks: named rows, their updates and deletes, and the reads that
\* walk the containment relation.
NextWalks ==
    \/ CreateNamed
    \/ Update
    \/ Destroy
    \/ Retrieve
    \/ GetAllChildren

SpecWalks == Init /\ [][NextWalks]_vars

Provision ==
    /\ \E project \in ProjectInputs : ProvisionProject(project)
    /\ UNCHANGED <<pending, input, output, executions, credentials, aws>>

DestroyProvisioned ==
    /\ \E id \in DOMAIN resources : DestroyResource(id)
    /\ UNCHANGED <<pending, input, output, providers, executions, credentials, aws>>

\* Templates: projects provisioned from the AWS template, and deletes of the
\* rows it created.
NextTemplate ==
    \/ Provision
    \/ DestroyProvisioned

SpecTemplate == Init /\ [][NextTemplate]_vars

StartExecution ==
    LET \* Executions clients create: a plan or an apply in any status, a status that
        \* is no choice, and the default status.
        ExecutionInputs ==
            {[project |-> 1, execution_type |-> t, status |-> st] :
                t \in {"plan", "apply"}, st \in EXECUTION_STATUS_CHOICES \cup {"stopped"}}

        \* POST /executions/: status is a writable field of the serializer, limited to
        \* its choices; a request without it stores the default 'pending'.
        CreateExecution(attrs) ==
            LET EXECUTION_TYPE_CHOICES == {"init", "plan", "apply", "destroy", "refresh"}
            IN  IF attrs.status \notin EXECUTION_STATUS_CHOICES
                   \/ attrs.execution_type \notin EXECUTION_TYPE_CHOICES
                THEN /\ response' = Respond("create_execution", 400, {"invalid_choice"}, <<>>)
                     /\ UNCHANGED executions
                ELSE /\ executions' = (FreshIdIn(executions) :> attrs) @@ executions
                     /\ response' = [Respond("create_execution", 201, {}, <<>>) EXCEPT
                                        !.id = FreshIdIn(executions)]
    IN  /\ Cardinality(DOMAIN executions) < MaxExecutions
        /\ \E attrs \in ExecutionInputs : CreateExecution(attrs)
        /\ UNCHANGED <<resources, dependencies, pending, input, output, providers, credentials, aws>>

Cancel ==
    /\ \E id \in DOMAIN executions : CancelExecution(id)
    /\ UNCHANGED <<resources, dependencies, pending, input, output, providers, credentials, aws>>

\* Executions: creates in any status, and cancels.
NextExecutions ==
    \/ StartExecution
    \/ Cancel

SpecExecutions == Init /\ [][NextExecutions]_vars

Invoke ==
    /\ \/ get_running_task # NULL
       \/ Cardinality(DOMAIN aws.tasks) < MaxTasks
    /\ \E attached \in BOOLEAN : ensure_backend_running(attached)
    /\ UNCHANGED <<resources, dependencies, pending, input, output, providers, executions, credentials>>

InvokeStop ==
    LET \* handle_stop(): the running task, if there is one, is stopped.
        handle_stop ==
            LET running_task == get_running_task
            IN  /\ aws' = IF running_task = NULL THEN aws
                          ELSE [aws EXCEPT !.tasks = stop_task(@, running_task)]
                /\ response' = Answer("handle_stop", 200, "stopped")
    IN  /\ handle_stop
        /\ UNCHANGED <<resources, dependencies, pending, input, output, providers, executions, credentials>>

Advance ==
    LET \* ECS moves a task on: towards RUNNING while that is its desired status
        \* (the network interface and its public IP come with PENDING), to STOPPED
        \* once it was asked to stop.
        EcsAdvance(t) ==
            /\ t \in DOMAIN aws.tasks
            /\ aws.tasks[t].lastStatus # "STOPPED"
            /\ aws.tasks[t].lastStatus # "RUNNING" \/ aws.tasks[t].desiredStatus = "STOPPED"
            /\ aws' = [aws EXCEPT !.tasks[t] =
                         IF @.desiredStatus = "STOPPED" THEN [@ EXCEPT !.lastStatus = "STOPPED"]
                         ELSE IF @.lastStatus = "PROVISIONING"
                              THEN [@ EXCEPT !.lastStatus = "PENDING", !.public_ip = TRUE]
                         ELSE [@ EXCEPT !.lastStatus = "RUNNING"]]
    IN  /\ \E t \in DOMAIN aws.tasks : EcsAdvance(t)
        /\ UNCHANGED <<resources, dependencies, response, pending, input, output, providers, executions, credentials>>

Forget ==
    LET \* ECS drops a stopped task from what it lists and describes.
        EcsForget(t) ==
            /\ t \in DOMAIN aws.tasks
            /\ aws.tasks[t].lastStatus = "STOPPED"
            /\ aws' = [aws EXCEPT !.tasks = [u \in (DOMAIN @) \ {t} |-> @[u]]]
    IN  /\ \E t \in DOMAIN aws.tasks : EcsForget(t)
        /\ UNCHANGED <<resources, dependencies, response, pending, input, output, providers, executions, credentials>>

\* The task manager: invocations of the lambda and the moves of ECS.
NextLambda ==
    \/ Invoke
    \/ InvokeStop
    \/ Advance
    \/ Forget

SpecLambda == Init /\ [][NextLambda]_vars

AddCredential ==
    LET \* Credentials clients create: of two provider types, and of a type that is
        \* no choice, flagged as default or not.
        CredentialInputs ==
            {[provider_type |-> t, is_default |-> d] : t \in {"aws", "azure", "ibm"}, d \in BOOLEAN}

        \* POST /credentials/ by request_user: the serializer takes provider_type and
        \* is_default from the client and the user from the request.
        CreateCredential(request_user, attrs) ==
            LET PROVIDER_TYPE_CHOICES == {"aws", "azure", "gcp", "digitalocean", "other"}
            IN  IF attrs.provider_type \notin PROVIDER_TYPE_CHOICES
                THEN /\ response' = Respond("create_credential", 400, {"invalid_choice"}, <<>>)
                     /\ UNCHANGED credentials
                ELSE /\ credentials' =
                          (FreshIdIn(credentials) :>
                              [user |-> request_user, provider_type |-> attrs.provider_type,
                               is_default |-> attrs.is_default])
                          @@ credentials
                     /\ response' = [Respond("create_credential", 201, {}, <<>>) EXCEPT
                                        !.id = FreshIdIn(credentials)]
    IN  /\ Cardinality(DOMAIN credentials) < MaxCredentials
        /\ \E request_user \in UserInputs : \E attrs \in CredentialInputs :
               CreateCredential(request_user, attrs)
        /\ UNCHANGED <<resources, dependencies, pending, input, output, providers, executions, aws>>

MakeDefault ==
    LET \* PATCH /credentials/{id}/set_default/ by request_user; get_object() looks the
        \* credential up among those of the user.
        SetDefault(request_user, id) ==
            IF id \notin DOMAIN credentials \/ credentials[id].user # request_user
            THEN /\ response' = [Respond("set_default", 404, {"not_found"}, <<>>) EXCEPT !.id = id]
                 /\ UNCHANGED credentials
            ELSE /\ credentials' = [ClearedDefaults(request_user, id) EXCEPT ![id].is_default = TRUE]
                 /\ response' = [Respond("set_default", 200, {}, <<>>) EXCEPT !.id = id]
    IN  /\ \E request_user \in UserInputs : \E id \in DOMAIN credentials :
               SetDefault(request_user, id)
        /\ UNCHANGED <<resources, dependencies, pending, input, output, providers, executions, aws>>

\* Credentials: creates by two users, and set_default.
NextCredentials ==
    \/ AddCredential
    \/ MakeDefault

SpecCredentials == Init /\ [][NextCredentials]_vars

ProvisionFirst ==
    /\ ProvisionProject(1)
    /\ UNCHANGED <<pending, input, output, executions, credentials, aws>>

CreateGrafted ==
    LET \* Requests of the graph scenario: creates and full updates with one of the
        \* chain's types under no parent or under one of the first rows.
        GraphCreateInputs ==
            {Request(RequiredFields \cup {"parent_resource"},
                     [FieldDefaults EXCEPT !.project = 1, !.resource_type = t,
                                           !.resource_name = NamePool[FreshId],
                                           !.terraform_address = AddressPool[FreshId],
                                           !.parent_resource = p]) :
                t \in UpdateTypeInputs, p \in 0..MaxAddressed}
    IN  /\ Cardinality(DOMAIN resources) < MaxAddressed
        /\ \E attrs \in GraphCreateInputs : CreateResource(attrs)
        /\ UNCHANGED <<pending, input, output, providers, executions, credentials, aws>>

UpdateAddressed ==
    LET GraphUpdateInputs(id) ==
            {Request(RequiredFields \cup {"parent_resource"},
                     [FieldDefaults EXCEPT !.project = resources[id].project,
                                           !.resource_type = t,
                                           !.resource_name = resources[id].resource_name,
                                           !.terraform_address = resources[id].terraform_address,
                                           !.parent_resource = p]) :
                t \in UpdateTypeInputs, p \in 0..MaxAddressed}
    IN  /\ \E id \in (DOMAIN resources) \cap (1..MaxAddressed) :
               \E attrs \in GraphUpdateInputs(id) : UpdateResource(id, attrs, FALSE)
        /\ UNCHANGED <<pending, input, output, providers, executions, credentials, aws>>

\* The graph: a project provisioned from the template, rows created through
\* the API, full updates of the first rows, and deletes.
NextGraph ==
    \/ ProvisionFirst
    \/ CreateGrafted
    \/ UpdateAddressed
    \/ DestroyProvisioned

SpecGraph == Init /\ [][NextGraph]_vars

\* Placement: creates of every type under every parent, and deletes.
NextPlacement ==
    \/ Create
    \/ Destroy

SpecPlacement == Init /\ [][NextPlacement]_vars

CreateScenario ==
    /\ \E attrs \in ScenarioInputs : CreateResource(attrs)
    /\ UNCHANGED <<pending, input, output, providers, executions, credentials, aws>>

AddDependency ==
    /\ BagCardinality(dependencies) < MaxEdges
    /\ \E row \in DependencyInputs : CreateDependency(row)
    /\ UNCHANGED <<pending, input, output, providers, executions, credentials, aws>>

ChangeDependency ==
    LET \* PUT /dependencies/{id}/ (a PATCH is a PUT that repeats the stored values)
        UpdateDependency(old, row) ==
            /\ BagIn(old, dependencies)
            /\ LET others == dependencies (-) SetToBag({old})
                   errors == DependencyErrors(row, others)
               IN  IF errors # {}
                   THEN /\ response' = Respond("update_dependency", 400, errors, <<>>)
                        /\ UNCHANGED <<resources, dependencies>>
                   ELSE /\ dependencies' = others (+) SetToBag({row})
                        /\ response' = Respond("update_dependency", 200, {}, <<>>)
                        /\ UNCHANGED resources
    IN  /\ \E old \in BagToSet(dependencies) : \E row \in DependencyInputs : UpdateDependency(old, row)
        /\ UNCHANGED <<pending, input, output, providers, executions, credentials, aws>>

RemoveDependency ==
    LET \* DELETE /dependencies/{id}/
        DestroyDependency(old) ==
            /\ BagIn(old, dependencies)
            /\ dependencies' = dependencies (-) SetToBag({old})
            /\ response' = Respond("remove_dependency", 204, {}, <<>>)
            /\ UNCHANGED resources
    IN  /\ \E old \in BagToSet(dependencies) : DestroyDependency(old)
        /\ UNCHANGED <<pending, input, output, providers, executions, credentials, aws>>

\* Dependencies: the cascade scenario's resources, their deletion, and
\* creates, updates and deletes of dependency edges.
NextDeps ==
    \/ CreateScenario
    \/ Destroy
    \/ AddDependency
    \/ ChangeDependency
    \/ RemoveDependency

SpecDeps == Init /\ [][NextDeps]_vars

CreateConfigured ==
    /\ Cardinality(DOMAIN resources) < MaxEntities
    /\ \E attrs \in ConfiguredCreateInputs : CreateResource(attrs)
    /\ UNCHANGED <<pending, input, output, providers, executions, credentials, aws>>

UpdateConfigured ==
    /\ \E id \in DOMAIN resources : \E attrs \in ConfiguredUpdateInputs :
           UpdateResource(id, attrs, TRUE)
    /\ UNCHANGED <<pending, input, output, providers, executions, credentials, aws>>

\* Configurations: creates and partial updates of security groups and vpcs
\* with and without egress rules, and deletes.
NextConfig ==
    \/ CreateConfigured
    \/ UpdateConfigured
    \/ Destroy

SpecConfig == Init /\ [][NextConfig]_vars

CreateFewConfigured ==
    /\ Cardinality(DOMAIN resources) < MaxConfigured
    /\ \E attrs \in ConfiguredCreateInputs : CreateResource(attrs)
    /\ UNCHANGED <<pending, input, output, providers, executions, credentials, aws>>

ReplaceConfigured ==
    /\ \E id \in DOMAIN resources : \E attrs \in ConfiguredFullUpdateInputs(id) :
           UpdateResource(id, attrs, FALSE)
    /\ UNCHANGED <<pending, input, output, providers, executions, credentials, aws>>

\* Updated configurations: a few security groups and vpcs, their partial and
\* full updates, and deletes.
NextReconfig ==
    \/ CreateFewConfigured
    \/ UpdateConfigured
    \/ ReplaceConfigured
    \/ Destroy

SpecReconfig == Init /\ [][NextReconfig]_vars

BeginCreate ==
    LET \* is_valid() and super().create(validated_data): the row is inserted with
        \* the configuration as submitted; the request has not answered yet.
        InsertResource(attrs) ==
            /\ pending.id = NULL
            /\ LET fieldErrors == FieldErrors(attrs, FALSE, NULL)
                   id == FreshId
               IN  IF fieldErrors # {}
                   THEN /\ response' = Respond("create", 400, fieldErrors, <<>>)
                        /\ UNCHANGED <<resources, dependencies, pending>>
                   ELSE LET cleaned == validate(attrs, id)
                        IN  IF cleaned.error # "none"
                            THEN /\ response' = Respond("create", 400, {cleaned.error}, cleaned.listed)
                                 /\ UNCHANGED <<resources, dependencies, pending>>
                            ELSE /\ resources' = (id :> RowOf(attrs)) @@ resources
                                 /\ pending' = [id |-> id]
                                 /\ UNCHANGED <<dependencies, response>>
    IN  /\ Cardinality(DOMAIN resources) < MaxConfigured
        /\ \E attrs \in ConfiguredCreateInputs : InsertResource(attrs)
        /\ UNCHANGED <<input, output, providers, executions, credentials, aws>>

FinishCreate ==
    LET \* The rest of create(): for a security group without egress rules the
        \* instance is saved a second time with the default rule; then the view
        \* answers 201.
        SaveDefaultEgress ==
            /\ pending.id # NULL
            /\ resources' = [resources EXCEPT ![pending.id].configuration =
                                                 CreatedConfiguration(resources[pending.id])]
            /\ response' = [Respond("create", 201, {}, <<>>) EXCEPT !.id = pending.id]
            /\ pending' = NoPending
            /\ UNCHANGED dependencies
    IN  /\ SaveDefaultEgress
        /\ UNCHANGED <<input, output, providers, executions, credentials, aws>>

Stop ==
    LET \* The process serving the request ends after super().create() and before
        \* instance.save(): nothing undoes the insert, the client gets no answer from
        \* the view.
        StopBeforeSave ==
            /\ pending.id # NULL
            /\ response' = Respond("create", 500, {}, <<>>)
            /\ pending' = NoPending
            /\ UNCHANGED <<resources, dependencies>>
    IN  /\ StopBeforeSave
        /\ UNCHANGED <<input, output, providers, executions, credentials, aws>>

DestroyAtRest ==
    /\ pending.id = NULL
    /\ \E id \in DOMAIN resources : DestroyResource(id)
    /\ UNCHANGED <<pending, input, output, providers, executions, credentials, aws>>

\* Creates write by write: the insert, then the save of the default egress
\* rule or the end of the process, and deletes between requests.
NextWrites ==
    \/ BeginCreate
    \/ FinishCreate
    \/ Stop
    \/ DestroyAtRest

SpecWrites == Init /\ [][NextWrites]_vars

\* The store as constructed, untouched by the parser.
StoreInit ==
    /\ resources = [r \in {} |-> FieldDefaults]
    /\ dependencies = EmptyBag
    /\ response = Respond("none", 0, {}, <<>>)
    /\ pending = NoPending
    /\ providers = {}
    /\ executions = <<>>
    /\ credentials = <<>>
    /\ aws = [tasks |-> <<>>, integration |-> NULL]

InitExtract ==
    LET \* A parsed file with a 'resource' or a 'data' section of at most MaxBlocks
        \* blocks.
        ParsedInputs ==
            LET \* One element of parsed['resource'] or parsed['data']: a mapping with one
                \* type, or with two.
                BlockInputs ==
                    LET \* What a type maps to: the mapping of names to bodies that python-hcl2
                        \* builds for `resource "type" "name" { ... }`, or a list of such mappings,
                        \* which is what the loops of the extractors walk.
                        InstanceListInputs ==
                            InstanceInputs
                            \cup {List(<<instance>>) : instance \in InstanceInputs}
                            \cup {List(<<instance, instance>>) : instance \in {Dict(<<Item(<<"main">>, Dict(<<>>))>>)}}
                    IN  {Dict(<<Item(<<type>>, instances)>>) :
                            type \in {"aws_vpc", "aws_subnet"}, instances \in InstanceListInputs}
                        \cup {Dict(<<Item(<<"aws_vpc">>, List(<<Dict(<<Item(<<"main">>, Dict(<<>>))>>)>>)),
                                     Item(<<"aws_subnet">>, List(<<Dict(<<Item(<<"main">>, Str(<<"main">>))>>)>>))>>),
                              Dict(<<Item(<<"aws_vpc">>, Dict(<<>>))>>)}
            IN  {[section |-> section, blocks |-> blocks, file_path |-> "main.tf"] :
                    section \in {"resource", "data"}, blocks \in SeqUpTo(BlockInputs, MaxBlocks)}
    IN  /\ StoreInit
        /\ input \in ParsedInputs
        /\ output = [done |-> FALSE, error |-> "none", records |-> <<>>]

\* if 'resource' in parsed: all_resources.extend(self._extract_resources(...))
ExtractResources ==
    /\ ~output.done
    /\ input.section = "resource"
    /\ output' = [done |-> TRUE] @@ _extract_resources(input.blocks, input.file_path)
    /\ UNCHANGED <<resources, dependencies, response, pending, input, providers, executions, credentials, aws>>

\* if 'data' in parsed: all_data_sources.extend(self._extract_data_sources(...))
ExtractDataSources ==
    /\ ~output.done
    /\ input.section = "data"
    /\ output' = [done |-> TRUE] @@ _extract_data_sources(input.blocks, input.file_path)
    /\ UNCHANGED <<resources, dependencies, response, pending, input, providers, executions, credentials, aws>>

\* Extraction: the resource or the data section of one parsed file.
NextExtract ==
    \/ ExtractResources
    \/ ExtractDataSources

SpecExtract == InitExtract /\ [][NextExtract]_vars

InitRefs ==
    LET \* The entities handed to extract_dependencies: aws_subnet.web alone with one
        \* string of any text, or aws_vpc.main and aws_subnet.web with nested
        \* configurations of three strings and a number.
        EntityListInputs ==
            LET \* Every string of at most MaxTokens tokens.
                TextInputs ==
                    LET \* The tokens of the strings of the reference scenarios.
                        TokenInputs == {"${", "}", ".", " ", "var", "data", "aws_vpc", "main"}
                    IN  SeqUpTo(TokenInputs, MaxTokens)
            IN  {<<[terraform_address |-> <<"aws_subnet", ".", "web">>,
                    configuration |-> Dict(<<Item(<<"vpc_id">>, Str(text))>>)]>> :
                    text \in TextInputs}
                \cup
                {<<[terraform_address |-> <<"aws_vpc", ".", "main">>,
                    configuration |-> Dict(<<Item(<<"cidr_block">>, Str(a))>>)],
                   [terraform_address |-> <<"aws_subnet", ".", "web">>,
                    configuration |->
                        Dict(<<Item(<<"vpc_id">>, Str(a)),
                               Item(<<"count">>, [kind |-> "int"]),
                               Item(<<"tags">>, List(<<Str(b), Dict(<<Item(<<"Name">>, Str(c))>>)>>))>>)]>> :
                    a \in ReferenceInputs, b \in ReferenceInputs, c \in ReferenceInputs}
    IN  /\ StoreInit
        /\ input \in EntityListInputs
        /\ output = [done |-> FALSE, edges |-> <<>>]

ExtractDependencies ==
    /\ ~output.done
    /\ output' = [done |-> TRUE, edges |-> extract_dependencies(input)]
    /\ UNCHANGED <<resources, dependencies, response, pending, input, providers, executions, credentials, aws>>

\* Dependency resolution of one list of entities.
NextRefs == ExtractDependencies

SpecRefs == InitRefs /\ [][NextRefs]_vars

InitScan ==
    LET \* The files of the scan scenarios: one hcl2 cannot load; an empty one; one
        \* whose resources come as lists of mappings; one whose resources come as
        \* mappings; one whose resources come as lists and whose data sources as
        \* mappings; one with every other section; one with an empty terraform
        \* section.
        FileInputs ==
            LET TerraformSection ==
                    List(<<Dict(<<Item(<<"required_version">>, Str(<<"1.5">>))>>)>>)

                ProviderSection ==
                    List(<<Dict(<<Item(<<"aws">>, List(<<Dict(<<Item(<<"region">>, Str(<<"us-east-1">>))>>)>>))>>)>>)
            IN  {[loads |-> FALSE, parsed |-> Dict(<<>>)],
                 [loads |-> TRUE, parsed |-> Dict(<<>>)],
                 [loads |-> TRUE, parsed |-> Dict(<<Item(<<"resource">>, ResourceSection)>>)],
                 [loads |-> TRUE, parsed |-> Dict(<<Item(<<"variable">>, NamedSection),
                                                   Item(<<"resource">>, MappedSection)>>)],
                 [loads |-> TRUE, parsed |-> Dict(<<Item(<<"resource">>, ResourceSection),
                                                   Item(<<"data">>, MappedSection)>>)],
                 [loads |-> TRUE, parsed |-> Dict(<<Item(<<"variable">>, NamedSection),
                                                   Item(<<"output">>, NamedSection),
                                                   Item(<<"provider">>, ProviderSection),
                                                   Item(<<"module">>, NamedSection),
                                                   Item(<<"terraform">>, TerraformSection)>>)],
                 [loads |-> TRUE, parsed |-> Dict(<<Item(<<"terraform">>, List(<<>>))>>)]}
    IN  /\ StoreInit
        /\ input \in SeqUpTo(FileInputs, MaxFiles)
        /\ output = [tf_file |-> 1, visited |-> <<>>, all |-> EmptyResult, printed |-> <<>>,
                     raised |-> FALSE, returned |-> FALSE, result |-> EmptyResult]

\* parse_project over the files of one directory.
NextScan ==
    \/ HandleFile
    \/ Return

SpecScan == InitScan /\ [][NextScan]_vars

\* parse_project is sequential code: it takes its next step as long as it has
\* one.
SpecScanRuns == InitScan /\ [][NextScan]_vars /\ WF_vars(NextScan)

CreateWithStatus ==
    LET \* Creates of the status scenarios: an aws_vpc without parent, the status key
        \* sent or not.
        StatusCreateInputs ==
            {Request(RequiredFields \cup {"status"},
                     [FieldDefaults EXCEPT !.project = 1, !.resource_type = "aws_vpc",
                                           !.resource_name = "main",
                                           !.terraform_address = AddressPool[FreshId],
                                           !.status = st]) :
                st \in StatusInputs}
            \cup
            {Request(RequiredFields,
                     [FieldDefaults EXCEPT !.project = 1, !.resource_type = "aws_vpc",
                                           !.resource_name = "main",
                                           !.terraform_address = AddressPool[FreshId]])}
    IN  /\ Cardinality(DOMAIN resources) < MaxEntities
        /\ \E attrs \in StatusCreateInputs : CreateResource(attrs)
        /\ UNCHANGED <<pending, input, output, providers, executions, credentials, aws>>

WriteStatus ==
    LET \* Partial updates of the status scenarios: only the status, or only the name.
        StatusUpdateInputs ==
            {Request({"status"}, [FieldDefaults EXCEPT !.status = st]) : st \in StatusInputs}
            \cup {Request({"resource_name"}, [FieldDefaults EXCEPT !.resource_name = "renamed"])}
    IN  /\ \E id \in DOMAIN resources : \E attrs \in StatusUpdateInputs :
               UpdateResource(id, attrs, TRUE)
        /\ UNCHANGED <<pending, input, output, providers, executions, credentials, aws>>

\* Statuses: creates with and without a status, partial updates that write a
\* status or another field, and deletes.
NextStatus ==
    \/ CreateWithStatus
    \/ WriteStatus
    \/ Destroy

SpecStatus == Init /\ [][NextStatus]_vars

CreateAddressed ==
    /\ Cardinality(DOMAIN resources) < MaxEntities
    /\ \E attrs \in AddressCreateInputs : CreateResource(attrs)
    /\ UNCHANGED <<pending, input, output, providers, executions, credentials, aws>>

PatchAddress ==
    /\ \E id \in DOMAIN resources : \E attrs \in AddressPatchInputs :
           UpdateResource(id, attrs, TRUE)
    /\ UNCHANGED <<pending, input, output, providers, executions, credentials, aws>>

PutAddress ==
    /\ \E id \in DOMAIN resources : \E attrs \in AddressPutInputs :
           UpdateResource(id, attrs, FALSE)
    /\ UNCHANGED <<pending, input, output, providers, executions, credentials, aws>>

\* Addresses: creates and updates that choose the address and the project
\* freely, and deletes.
NextAddress ==
    \/ CreateAddressed
    \/ PatchAddress
    \/ PutAddress
    \/ Destroy

SpecAddress == Init /\ [][NextAddress]_vars

----------------------------------------------------------------------------
(* Properties *)

RECURSIVE ParentAfter(_, _)
\* The row reached from e by following parent_resource k times (NULL once the
\* chain has ended).
ParentAfter(e, k) ==
    IF e = NULL \/ e \notin DOMAIN resources THEN NULL
    ELSE IF k = 0 THEN e
    ELSE ParentAfter(resources[e].parent_resource, k - 1)

\* a is e itself or one of its ancestors.
OnParentChain(e, a) ==
    \E k \in 0..Cardinality(DOMAIN resources) : ParentAfter(e, k) = a

\* The parent types whose CONTAINER_RULES entry lists resource_type.
ParentTypesAllowing(resource_type) ==
    {p \in DOMAIN CONTAINER_RULES : resource_type \in Range(CONTAINER_RULES[p])}

\* The child types CONTAINER_RULES lists for parent_type (none for a type that
\* is not a container).
ChildTypesOf(parent_type) ==
    IF parent_type \in DOMAIN CONTAINER_RULES
    THEN Range(CONTAINER_RULES[parent_type]) ELSE {}

\* C1: a successful create of an entity whose type is in REQUIRES_PARENT stores
\* a non-null parent, and a create of such a type without a parent is
\* rejected and stores nothing.
C1_RequiredParentOnCreate ==
    [][response'.op = "create" =>
        \A attrs \in CreateInputs : CreateResource(attrs) =>
            /\ (attrs.resource_type \in Range(REQUIRES_PARENT) /\ attrs.parent_resource = NULL)
                  => (response'.code = 400 /\ resources' = resources)
            /\ response'.code = 201 =>
                  /\ response'.id \in (DOMAIN resources') \ (DOMAIN resources)
                  /\ resources'[response'.id].resource_type = attrs.resource_type
                  /\ resources'[response'.id].resource_type \in Range(REQUIRES_PARENT)
                        => resources'[response'.id].parent_resource \in DOMAIN resources
      ]_vars

C1_Witness ==
    /\ response.op = "create"
    /\ response.code = 201
    /\ resources[response.id].resource_type \in Range(REQUIRES_PARENT)
    /\ resources[response.id].parent_resource # NULL

\* C2: every stored entity with a parent has a type that the parent's type
\* may contain according to CONTAINER_RULES.
C2_ContainmentRespected ==
    \A e \in DOMAIN resources :
        resources[e].parent_resource # NULL =>
            LET parent_type == resources[resources[e].parent_resource].resource_type
            IN  /\ parent_type \in DOMAIN CONTAINER_RULES
                /\ resources[e].resource_type \in Range(CONTAINER_RULES[parent_type])

\* C3: the containment relation is acyclic: from every stored entity,
\* following parent_resource reaches null within (number of stored entities)
\* steps, and every parent is a stored entity.
C3_Acyclic ==
    \A e \in DOMAIN resources :
        /\ resources[e].parent_resource \in {NULL} \cup DOMAIN resources
        /\ ParentAfter(e, Cardinality(DOMAIN resources)) = NULL

\* A re-parenting update was rejected as circular while the store holds a
\* contained entity.
C3_Witness ==
    /\ response.op = "update"
    /\ response.code = 400
    /\ "circular" \in response.errors
    /\ \E e \in DOMAIN resources : resources[e].parent_resource # NULL

\* C4: no stored dependency edge has from_resource equal to to_resource.
C4_NoSelfDependency ==
    \A d \in BagToSet(dependencies) : d.from_resource # d.to_resource

UniquePairs ==
    \A d \in BagToSet(dependencies) :
        /\ CopiesIn(d, dependencies) = 1
        /\ \A other \in BagToSet(dependencies) :
               (other.from_resource = d.from_resource /\ other.to_resource = d.to_resource)
                   => other = d

\* C5: at most one dependency edge is stored per ordered pair (from_resource,
\* to_resource), and inserting an edge for a stored pair is rejected and
\* leaves the table as it was.
C5_OneEdgePerPair ==
    [][/\ UniquePairs'
       /\ response'.op = "add_dependency" =>
            \A row \in DependencyInputs :
                (CreateDependency(row)
                 /\ \E d \in BagToSet(dependencies) :
                        d.from_resource = row.from_resource /\ d.to_resource = row.to_resource)
                    => (response'.code = 400 /\ dependencies' = dependencies)
      ]_vars

\* An insert was rejected for a pair that is stored.
C5_Witness ==
    /\ response.op = "add_dependency"
    /\ response.code = 400
    /\ response.errors = {"unique"}
    /\ dependencies # EmptyBag

\* C6: delete(e) removes exactly e, the entities transitively contained in e,
\* and the dependency edges with an endpoint among them; every other entity
\* and edge is unchanged.
C6_DeleteCascades ==
    [][response'.op = "destroy" =>
        \A id \in DOMAIN resources : DestroyResource(id) =>
            LET gone == {e \in DOMAIN resources : OnParentChain(e, id)}
            IN  /\ DOMAIN resources' = (DOMAIN resources) \ gone
                /\ \A e \in DOMAIN resources' : resources'[e] = resources[e]
                /\ BagToSet(dependencies') =
                       {d \in BagToSet(dependencies) :
                            d.from_resource \notin gone /\ d.to_resource \notin gone}
                /\ \A d \in BagToSet(dependencies') :
                       CopiesIn(d, dependencies') = CopiesIn(d, dependencies)
      ]_vars

\* A delete removed a container with what it contains and an edge, and left
\* another entity in the store.
C6_Witness ==
    /\ response.op = "destroy"
    /\ response.deleted.resources >= 2
    /\ response.deleted.dependencies >= 1
    /\ DOMAIN resources # {}

NoDanglingEdge ==
    \A d \in BagToSet(dependencies) :
        d.from_resource \in DOMAIN resources /\ d.to_resource \in DOMAIN resources

\* C7: both endpoints of every stored dependency edge are stored entities, and
\* inserting an edge with an endpoint that is not stored fails with an error
\* and stores nothing.
C7_NoDanglingEdge ==
    [][/\ NoDanglingEdge'
       /\ response'.op = "add_dependency" =>
            \A row \in DependencyInputs :
                (CreateDependency(row)
                 /\ ~(row.from_resource \in DOMAIN resources /\ row.to_resource \in DOMAIN resources))
                    => /\ response'.code = 400
                       /\ "does_not_exist" \in response'.errors
                       /\ dependencies' = dependencies
      ]_vars

\* An insert naming an entity that is not stored was refused.
C7_Witness ==
    /\ response.op = "add_dependency"
    /\ response.code = 400
    /\ "does_not_exist" \in response.errors
    /\ DOMAIN resources # {}

\* C8: a create under a parent whose type does not list the new type in
\* CONTAINER_RULES is rejected with a validation error and leaves entities
\* and edges as they were.
C8_IncompatibleParentRejected ==
    [][response'.op = "create" =>
        \A attrs \in ScenarioInputs :
            (CreateResource(attrs)
             /\ attrs.parent_resource \in DOMAIN resources
             /\ attrs.resource_type \notin
                    ChildTypesOf(resources[attrs.parent_resource].resource_type))
                => /\ response'.code = 400
                   /\ response'.errors # {}
                   /\ resources' = resources
                   /\ dependencies' = dependencies
      ]_vars

\* A create under a parent that cannot contain the type was rejected while the
\* store holds entities and edges.
C8_Witness ==
    /\ response.op = "create"
    /\ response.code = 400
    /\ response.errors = {"cannot_contain"}
    /\ dependencies # EmptyBag

\* C9: when create rejects an entity for a missing required parent, the valid
\* parents named in the error are exactly the parent types whose
\* CONTAINER_RULES entry lists the type, and there is at least one.
C9_ValidParentsListed ==
    [][response'.op = "create" =>
        \A attrs \in CreateInputs :
            (CreateResource(attrs) /\ "missing_parent" \in response'.errors)
                => /\ Range(response'.listed) = ParentTypesAllowing(attrs.resource_type)
                   /\ response'.listed # <<>>
      ]_vars

\* C10: a successful create of an aws_security_group whose configuration has
\* no 'egress' key or an empty one stores an 'egress' list with exactly one
\* allow-all-outbound rule and leaves the other keys as submitted; with a
\* non-empty 'egress', and for every other resource type, the stored
\* configuration is the submitted one.
C10_DefaultEgressOnCreate ==
    [][response'.op = "create" =>
        \A attrs \in ConfiguredCreateInputs :
            (CreateResource(attrs) /\ response'.code = 201) =>
                LET stored == resources'[response'.id].configuration
                    submitted == attrs.configuration
                IN  IF /\ attrs.resource_type = "aws_security_group"
                       /\ ("egress" \notin DOMAIN submitted \/ submitted["egress"] = <<>>)
                    THEN /\ DOMAIN stored = (DOMAIN submitted) \cup {"egress"}
                         /\ Len(stored["egress"]) = 1
                         /\ stored["egress"][1].protocol = "-1"
                         /\ stored["egress"][1].cidr_blocks = <<"0.0.0.0/0">>
                         /\ \A k \in (DOMAIN submitted) \ {"egress"} : stored[k] = submitted[k]
                    ELSE stored = submitted
      ]_vars

\* A security group was created from a configuration with another key and no
\* egress: it is stored with that key and the single default rule.
C10_Witness ==
    /\ response.op = "create"
    /\ response.code = 201
    /\ resources[response.id].resource_type = "aws_security_group"
    /\ DOMAIN resources[response.id].configuration = {"name", "egress"}
    /\ resources[response.id].configuration["egress"] = <<DefaultEgressRule>>

\* C11: the default egress rule is injected by create only. A successful
\* update stores exactly the configuration the client sent (the stored one
\* when the key was not sent), also when the row is or becomes an
\* aws_security_group and that configuration has no 'egress' key or an empty
\* one; no other row changes.
C11_NoEgressOnUpdate ==
    [][response'.op = "update" =>
        \A id \in DOMAIN resources :
            \A partial \in BOOLEAN :
                \A attrs \in (IF partial THEN ConfiguredUpdateInputs
                                         ELSE ConfiguredFullUpdateInputs(id)) :
                    \/ /\ resources'[id].configuration =
                              (IF "configuration" \in attrs.fields
                               THEN attrs.configuration
                               ELSE resources[id].configuration)
                       /\ \A other \in (DOMAIN resources) \ {id} :
                              resources'[other] = resources[other]
                    \/ ~(response'.code = 200 /\ UpdateResource(id, attrs, partial))
      ]_vars

\* An update was accepted and a stored aws_security_group has no egress rule:
\* its 'egress' key is missing or its list is empty.
C11_Witness ==
    /\ response.op = "update"
    /\ response.code = 200
    /\ \E id \in DOMAIN resources :
          /\ resources[id].resource_type = "aws_security_group"
          /\ \/ "egress" \notin DOMAIN resources[id].configuration
             \/ resources[id].configuration["egress"] = <<>>

\* The status changes of the lifecycle: unknown -> planning -> applying ->
\* created, created -> updating -> created, created -> destroyed, and error
\* from every status but destroyed.
StatusTransitions ==
    {<<"unknown", "planning">>, <<"planning", "applying">>, <<"applying", "created">>,
     <<"created", "updating">>, <<"updating", "created">>, <<"created", "destroyed">>}
    \cup {<<st, "error">> : st \in STATUS_CHOICES \ {"destroyed", "error"}}

\* C12: every change of a stored row's status is one of the lifecycle's
\* transitions, a row whose status is destroyed never changes status again,
\* and only a request that writes the status (an update) changes it.
C12_StatusStateMachine ==
    [][\A id \in (DOMAIN resources) \cap (DOMAIN resources') :
          resources'[id].status # resources[id].status =>
              /\ <<resources[id].status, resources'[id].status>> \in StatusTransitions
              /\ resources[id].status # "destroyed"
              /\ response'.op = "update"
      ]_vars

\* No two rows of the table share a terraform_address.
UniqueAddresses(table) ==
    \A a, b \in DOMAIN table :
        a # b => table[a].terraform_address # table[b].terraform_address

\* The address is the one of a stored row other than instance.
AddressTaken(address, instance) ==
    \E other \in (DOMAIN resources) \ {instance} :
        resources[other].terraform_address = address

\* C13: terraform_address is unique over the whole store, whatever the
\* projects of the rows: every step leaves a table without two rows of the
\* same address, and a create or an update that submits the address of
\* another stored row is answered 400 and leaves the table as it was.
C13_AddressUnique ==
    [][/\ UniqueAddresses(resources')
       /\ response'.op = "create" =>
            \A attrs \in AddressCreateInputs :
                (AddressTaken(attrs.terraform_address, NULL) /\ CreateResource(attrs)) =>
                    /\ response'.code = 400
                    /\ "unique" \in response'.errors
                    /\ resources' = resources
       /\ response'.op = "update" =>
            \A id \in DOMAIN resources :
                /\ \A attrs \in AddressPatchInputs :
                      (AddressTaken(attrs.terraform_address, id)
                       /\ UpdateResource(id, attrs, TRUE)) =>
                          /\ response'.code = 400
                          /\ "unique" \in response'.errors
                          /\ resources' = resources
                /\ \A attrs \in AddressPutInputs :
                      (AddressTaken(attrs.terraform_address, id)
                       /\ UpdateResource(id, attrs, FALSE)) =>
                          /\ response'.code = 400
                          /\ "unique" \in response'.errors
                          /\ resources' = resources
      ]_vars

\* Rows of both projects are stored and an update that asked for the address
\* of another row was rejected as not unique.
C13_Witness ==
    /\ response.op = "update"
    /\ response.code = 400
    /\ "unique" \in response.errors
    /\ \E a, b \in DOMAIN resources : resources[a].project # resources[b].project

\* C14: a create is all or nothing. In no state of the table is a security
\* group, created from a configuration without egress rules, stored without
\* the default egress rule: every stored aws_security_group has a non-empty
\* 'egress' list.
C14_CreateIsAtomic ==
    \A id \in DOMAIN resources :
        resources[id].resource_type = "aws_security_group" =>
            /\ "egress" \in DOMAIN resources[id].configuration
            /\ resources[id].configuration["egress"] # <<>>

\* The names a type maps to, with their bodies: the items of its mapping, or
\* of the mappings of its list.
NamedBodies(instances) ==
    IF instances.kind = "dict"
    THEN instances.items
    ELSE Flatten([i \in 1..Len(instances.items) |-> instances.items[i].items])

\* The (type, name) pairs of a section: block b, type t of the block, name n
\* under the type.
Entries(blocks) ==
    {e \in (1..Len(blocks)) \X (1..2) \X (1..2) :
        /\ e[2] <= Len(blocks[e[1]].items)
        /\ e[3] <= Len(NamedBodies(blocks[e[1]].items[e[2]].value))}

\* e comes before f, or is f, in the order of the section.
EntryBefore(e, f) ==
    \E k \in 1..4 : (\A j \in 1..(k - 1) : e[j] = f[j]) /\ (k = 4 \/ e[k] < f[k])

\* C15: the extractor raises nothing and emits one record per (type, name)
\* pair of the parsed section, in the order of the section. The record of a
\* pair has the pair's name, the pair's type (after 'data.' for a data
\* section), terraform_address = resource_type + '.' + resource_name, and as
\* configuration the pair's body when it is a mapping and {} otherwise.
C15_ExtractorRecords ==
    output.done =>
        /\ output.error = "none"
        /\ Len(output.records) = Cardinality(Entries(input.blocks))
        /\ \A e \in Entries(input.blocks) :
              LET record == output.records[Cardinality({f \in Entries(input.blocks) :
                                                            EntryBefore(f, e)})]
                  type == input.blocks[e[1]].items[e[2]].key
                  named == NamedBodies(input.blocks[e[1]].items[e[2]].value)[e[3]]
              IN  /\ record.resource_name = named.key
                  /\ record.resource_type =
                        (IF input.section = "data" THEN <<"data", ".">> \o type ELSE type)
                  /\ record.terraform_address =
                        (IF input.section = "data"
                         THEN <<"data", ".">> \o type \o <<".">> \o named.key
                         ELSE type \o <<".">> \o named.key)
                  /\ record.configuration =
                        (IF named.value.kind = "dict" THEN named.value ELSE Dict(<<>>))
        /\ \A k \in 1..Len(output.records) :
              output.records[k].terraform_address =
                  output.records[k].resource_type \o <<".">> \o output.records[k].resource_name

\* The positions of the dots of a string, and the segment that ends at the
\* n-th dot (at the end of the string when it has fewer than n dots).
Dots(text) == {k \in 1..Len(text) : text[k] = "."}

Segment(text, n) ==
    LET ends == {k \in Dots(text) \cup {Len(text) + 1} :
                    Cardinality({d \in Dots(text) : d < k}) = n - 1}
        starts == {k \in Dots(text) \cup {0} :
                    Cardinality({d \in Dots(text) : d <= k}) = n - 1}
    IN  SubSeq(text, (CHOOSE k \in starts : TRUE) + 1, (CHOOSE k \in ends : TRUE) - 1)

ReservedSegments == {<<"var">>, <<"local">>, <<"data">>}

RECURSIVE StringLeaves(_)

StringLeaves(value) ==
    CASE value.kind = "dict" ->
            Flatten([k \in 1..Len(value.items) |-> StringLeaves(value.items[k].value)])
      [] value.kind = "list" ->
            Flatten([k \in 1..Len(value.items) |-> StringLeaves(value.items[k])])
      [] value.kind = "str" -> <<value.text>>
      [] OTHER -> <<>>

\* The ${...} references of a string, each as the positions of its "${" and
\* of its "}": a "}" closes the leftmost "${" that comes after the "}" before
\* it and has a token or more between itself and this "}".
ReferencesIn(text) ==
    LET closers == {j \in 1..Len(text) : text[j] = "}"}
        openers(j) ==
            {i \in 1..(j - 2) : text[i] = "${" /\ \A c \in closers : ~(i < c /\ c < j)}
    IN  {<<CHOOSE i \in openers(j) : \A o \in openers(j) : i <= o, j>> :
            j \in {c \in closers : openers(c) # {}}}

\* The references of the input that are to become edges: entity r, string l
\* of its configuration, a reference m of the string that has two
\* dot-separated components or more, the first of them not reserved.
EdgeReferences ==
    UNION {UNION {{<<r, l, m>> :
                      m \in {x \in ReferencesIn(StringLeaves(input[r].configuration)[l]) :
                                LET path == SubSeq(StringLeaves(input[r].configuration)[l],
                                                   x[1] + 1, x[2] - 1)
                                IN  Dots(path) # {} /\ Segment(path, 1) \notin ReservedSegments}} :
                  l \in 1..Len(StringLeaves(input[r].configuration))} :
           r \in 1..Len(input)}

\* The edge of a reference: from the entity to first.second, implicit.
EdgeOfReference(x) ==
    LET path == SubSeq(StringLeaves(input[x[1]].configuration)[x[2]], x[3][1] + 1, x[3][2] - 1)
    IN  <<input[x[1]].terraform_address,
          Segment(path, 1) \o <<".">> \o Segment(path, 2),
          "implicit">>

\* C17: every reference of two components or more that is not excluded,
\* wherever it stands in the configuration of an entity, yields the edge
\* (address of the entity, first.second, 'implicit'), whether or not an entity
\* of the input has the target address; the edges are these and no others,
\* one per reference, so a reference of fewer than two components yields
\* none; every edge is 'implicit'.
C17_EveryReferenceAnEdge ==
    output.done =>
        /\ \A x \in EdgeReferences : EdgeOfReference(x) \in Range(output.edges)
        /\ \A k \in 1..Len(output.edges) :
              /\ output.edges[k][3] = "implicit"
              /\ Cardinality({j \in 1..Len(output.edges) : output.edges[j] = output.edges[k]})
                   = Cardinality({x \in EdgeReferences : EdgeOfReference(x) = output.edges[k]})
        /\ Len(output.edges) = Cardinality(EdgeReferences)

\* aws_subnet.web was resolved alone and its reference to aws_vpc.main, an
\* address no entity of the input has, became an edge.
C17_Witness ==
    /\ output.done
    /\ Len(input) = 1
    /\ input[1].configuration.items[1].value.text = <<"${", "aws_vpc", ".", "main", "}">>
    /\ output.edges =
            << <<<<"aws_subnet", ".", "web">>, <<"aws_vpc", ".", "main">>, "implicit">> >>

\* C18: the edges that dependency resolution returns hold every (from, to)
\* pair at most once and no edge from an address to itself.
C18_EdgesUniqueNoSelf ==
    output.done =>
        /\ \A j, k \in 1..Len(output.edges) :
              j # k => <<output.edges[j][1], output.edges[j][2]>>
                         # <<output.edges[k][1], output.edges[k][2]>>
        /\ \A k \in 1..Len(output.edges) : output.edges[k][1] # output.edges[k][2]

\* The lists of the value parse_project returns.
ResultLists == {"resources", "data_sources", "variables", "outputs", "providers", "modules"}

\* What handling the i-th file alone extracts, and the error it ends with.
Alone(i) == Try(EmptyResult, input[i], PathOf(i))

\* C19: parse_project returns, whatever the files hold; when it does it has
\* visited every file of the directory once, in order, and every record of
\* every file that was handled without error is in the list of its kind in
\* the value returned, also when a file before it or after it raised.
C19_ScanCompletes ==
    /\ <>output.returned
    /\ [](output.returned =>
            /\ output.visited = [i \in 1..Len(input) |-> PathOf(i)]
            /\ \A i \in 1..Len(input) :
                  Alone(i).error = "none" =>
                      \A list \in ResultLists :
                          \A k \in 1..Len(Alone(i).all[list]) :
                              Alone(i).all[list][k] \in Range(output.result[list]))

\* parse_project returned; its first file raised and the records of its
\* second file are in the value returned.
C19_Witness ==
    /\ output.returned
    /\ Len(input) = 2
    /\ Len(output.printed) = 1
    /\ output.printed[1].file_path = PathOf(1)
    /\ Len(output.result.resources) = 1
    /\ output.result.resources[1].file_path = PathOf(2)

\* The value returned names the file and its error in an entry of one of its
\* lists.
Reported(result, file_path, error) ==
    \E list \in (DOMAIN result) \ {"terraform"} :
        \E k \in 1..Len(result[list]) :
            /\ result[list][k].file_path = file_path
            /\ "error" \in DOMAIN result[list][k]
            /\ result[list][k].error = error

\* C20: the value parse_project returns identifies every file whose handling
\* raised an error, and the error.
C20_FailuresReported ==
    output.returned =>
        \A i \in 1..Len(input) :
            Alone(i).error # "none" => Reported(output.result, PathOf(i), Alone(i).error)

\* The rows other than e whose parent chain passes through e.
Below(e) == {x \in (DOMAIN resources) \ {e} : OnParentChain(x, e)}

\* C21: get_all_children(e) returns exactly the stored entities other than e
\* whose parent chain passes through e, each exactly once, and they are the
\* rows delete(e) removes besides e.
C21_AllChildrenAreDescendants ==
    response.op = "get_all_children" =>
        LET e == response.id
            children == response.all_children
        IN  /\ Range(children) = Below(e)
            /\ \A i, j \in 1..Len(children) : children[i] = children[j] => i = j
            /\ Range(children) = Collect({}, {e}) \ {e}

C21_Witness ==
    /\ response.op = "get_all_children"
    /\ Len(response.all_children) >= 2
    /\ \E x \in Range(response.all_children) :
           resources[x].parent_resource \notin {NULL, response.id}

\* The number of ancestors of e.
Depth(e) ==
    CHOOSE d \in 0..Cardinality(DOMAIN resources) :
        /\ ParentAfter(e, d) # NULL
        /\ ParentAfter(e, d + 1) = NULL

\* The names from the root ancestor of e down to e, " > " between them.
NamesFromRoot(e) ==
    [i \in 1..(2 * Depth(e) + 1) |->
        IF i % 2 = 1
        THEN resources[ParentAfter(e, Depth(e) - (i - 1) \div 2)].resource_name
        ELSE " > "]

\* C22: get_hierarchy_path(e) returns the resource_name of each entity on e's
\* parent chain, from the root ancestor down to e itself, joined by ' > '
\* (e's own name when e has no parent), and changes nothing in the store.
C22_HierarchyPath ==
    [][response'.op = "retrieve" =>
          /\ resources' = resources
          /\ dependencies' = dependencies
          /\ response'.hierarchy_path = NamesFromRoot(response'.id)]_vars

C22_Witness ==
    /\ response.op = "retrieve"
    /\ Len(response.hierarchy_path) = 5
    /\ resources[response.id].parent_resource # NULL

\* The rows of a project in a table, and those of a type.
RowsOf(table, project) == {r \in DOMAIN table : table[r].project = project}

OfType(table, rows, resource_type) == {r \in rows : table[r].resource_type = resource_type}

\* C23: for every project, in every reachable store state (other projects may
\* have been provisioned before), AWSTemplate.create succeeds and creates one
\* aws provider and five entities of the project: the aws_account container,
\* the default VPC in it and three default subnets in the VPC.  The project
\* is taken to own no provider and no row before the call.
C23_TemplateProvisions ==
    [][(/\ response'.op = "AWSTemplate.create"
        /\ RowsOf(resources, response'.project) = {}
        /\ \A provider \in providers : provider.project # response'.project)
       =>
       LET made == Range(response'.created.resources)
       IN  /\ response'.errors = {}
           /\ response'.created.providers = 1
           /\ Len(response'.created.resources) = 5
           /\ made = RowsOf(resources', response'.project)
           /\ \E account \in OfType(resources', made, "aws_account"),
                 vpc \in OfType(resources', made, "aws_vpc") :
                 /\ resources'[account].parent_resource = NULL
                 /\ resources'[vpc].parent_resource = account
                 /\ Cardinality(OfType(resources', made, "aws_subnet")) = 3
                 /\ \A subnet \in OfType(resources', made, "aws_subnet") :
                        resources'[subnet].parent_resource = vpc]_vars

\* C24: cancel(e) succeeds only when e.status is 'running' and then sets it to
\* 'cancelled'; in every other status it answers 400 and leaves the status and
\* every other field of e unchanged.
C24_CancelOnlyRunning ==
    [][response'.op = "cancel" =>
          LET e == response'.id
          IN  IF executions[e].status = "running"
              THEN /\ response'.code = 200
                   /\ executions' = [executions EXCEPT ![e].status = "cancelled"]
              ELSE /\ response'.code = 400
                   /\ executions' = executions]_vars

C24_Witness ==
    /\ response.op = "cancel"
    /\ response.code = 200
    /\ executions[response.id].status = "cancelled"
    /\ \E other \in DOMAIN executions : executions[other].status = "pending"

\* The row an update request describes: the stored row with the sent keys
\* replaced.
RowAfter(id, attrs) ==
    [f \in WritableFields |-> IF f \in attrs.fields THEN attrs[f] ELSE resources[id][f]]

\* A row that breaks a containment rule: a REQUIRES_PARENT type without a
\* parent, or a parent whose type may not contain the row's type.
BreaksContainment(row) ==
    \/ row.resource_type \in Range(REQUIRES_PARENT) /\ row.parent_resource = NULL
    \/ /\ row.parent_resource \in DOMAIN resources
       /\ row.resource_type \notin ChildTypesOf(resources[row.parent_resource].resource_type)

\* What C25 asks of a step that answers an update of row id with attrs.
ValidatedAsAfter(id, attrs) ==
    /\ BreaksContainment(RowAfter(id, attrs))
          => (response'.code = 400 /\ resources' = resources)
    /\ (/\ ~BreaksContainment(resources[id])
        /\ RowAfter(id, attrs).resource_type = resources[id].resource_type
        /\ RowAfter(id, attrs).parent_resource = resources[id].parent_resource)
          => response'.code = 200

\* C25: a full or partial update is validated against the state the entity
\* would have after it: one that would leave a REQUIRES_PARENT type without a
\* parent, or under a parent that may not contain it, is rejected and the row
\* is unchanged; one that changes neither type nor parent of a valid entity is
\* accepted.
C25_UpdateValidatedAsAfter ==
    [][response'.op = "update" =>
          \A id \in DOMAIN resources :
              /\ \A attrs \in UpdateInputs(id) :
                     UpdateResource(id, attrs, FALSE) => ValidatedAsAfter(id, attrs)
              /\ \A attrs \in PartialUpdateInputs :
                     UpdateResource(id, attrs, TRUE) => ValidatedAsAfter(id, attrs)]_vars

\* The tasks that are still starting: asked to run and not yet RUNNING.
Starting == {t \in DOMAIN aws.tasks :
                /\ aws.tasks[t].desiredStatus = "RUNNING"
                /\ aws.tasks[t].lastStatus \in {"PROVISIONING", "PENDING"}}

\* C26: a client that keeps invoking the lambda without 'stop' eventually gets
\* 'ready', because no invocation of ensure_backend_running stops a task that
\* an earlier invocation started and that is still starting.
C26_StartingTasksKept ==
    [][response'.op = "ensure_backend_running" /\ aws' # aws =>
          \A t \in Starting :
              /\ t \in DOMAIN aws'.tasks
              /\ aws'.tasks[t].desiredStatus = "RUNNING"]_vars

\* Two credentials of the same user and provider type.
SameOwnerAndType(table, a, b) ==
    /\ table[a].user = table[b].user
    /\ table[a].provider_type = table[b].provider_type

\* C27: after set_default(c) succeeds, c.is_default is true, no other
\* credential of the same user and provider type is the default, and the
\* credentials of other users or other provider types are unchanged.
C27_SingleDefault ==
    [][(response'.op = "set_default" /\ response'.code = 200) =>
          LET c == response'.id
          IN  /\ DOMAIN credentials' = DOMAIN credentials
              /\ credentials'[c].is_default
              /\ \A other \in (DOMAIN credentials') \ {c} :
                     IF SameOwnerAndType(credentials', other, c)
                     THEN ~credentials'[other].is_default
                     ELSE credentials'[other] = credentials[other]]_vars

C27_Witness ==
    /\ response.op = "set_default"
    /\ response.code = 200
    /\ credentials[response.id].is_default
    /\ \E other \in (DOMAIN credentials) \ {response.id} :
           /\ SameOwnerAndType(credentials, other, response.id)
           /\ ~credentials[other].is_default
    /\ \E other \in (DOMAIN credentials) \ {response.id} :
           /\ ~SameOwnerAndType(credentials, other, response.id)
           /\ credentials[other].is_default

Rows == Cardinality(DOMAIN resources)

\* C28: in every reachable store state the walks of get_hierarchy_path and
\* get_all_children, and the ancestor walk of _check_circular_reference,
\* terminate for every stored entity: none needs more iterations than there
\* are rows.
C28_WalksTerminate ==
    \A e \in DOMAIN resources :
        /\ HierarchyWalk(resources[e].parent_resource, Rows)
        /\ ChildrenWalk(e, Rows)
        /\ CircularWalk({e}, resources[e].parent_resource, Rows)

\* A provisioned project whose account was put under a row of its own
\* subtree by a request, which was rejected as circular.
C28_Witness ==
    /\ response.op = "update"
    /\ "circular" \in response.errors
    /\ \E e \in DOMAIN resources :
           /\ resources[e].terraform_address = "data.aws_subnet.default_us_east_1c"
           /\ ~HierarchyWalk(e, 1)

\* C29: a validated create of a REQUIRES_PARENT type succeeds only under a
\* parent whose type lists it in CONTAINER_RULES; aws_db_subnet_group is in no
\* child list, so every validated create of that type is rejected, whatever
\* parent is supplied.
C29_RequiredTypeNeedsListingParent ==
    [][response'.op = "create" =>
          \A attrs \in CreateInputs : CreateResource(attrs) =>
              /\ (response'.code = 201 /\ attrs.resource_type \in Range(REQUIRES_PARENT))
                    => /\ attrs.parent_resource \in DOMAIN resources
                       /\ resources[attrs.parent_resource].resource_type
                             \in ParentTypesAllowing(attrs.resource_type)
              /\ attrs.resource_type = "aws_db_subnet_group"
                    => (response'.code = 400 /\ resources' = resources)]_vars

\* A create of an aws_db_subnet_group was rejected in a store that holds an
\* aws_instance under an aws_subnet.
C29_Witness ==
    /\ response.op = "create"
    /\ response.code = 400
    /\ response.errors = {"missing_parent"}
    /\ response.listed = <<>>
    /\ \E e \in DOMAIN resources :
           /\ resources[e].resource_type = "aws_instance"
           /\ resources[e].parent_resource \in DOMAIN resources
           /\ resources[resources[e].parent_resource].resource_type = "aws_subnet"

\* C30: a file whose handling raises an error is skipped as a whole: the value
\* parse_project returns holds no record of it in any of its lists, also when
\* the error was raised after some of its block kinds were extracted.
C30_FailedFileSkipped ==
    output.returned =>
        \A i \in 1..Len(input) :
            Alone(i).error # "none" =>
                \A list \in ResultLists :
                    \A k \in 1..Len(output.result[list]) :
                        output.result[list][k].file_path # PathOf(i)

====
